---- MODULE Spec2Model ----
(***************************************************************************)
(* Model of the networked device fabric of the micro:bit simulator:        *)
(*   - the gossip synchronisation server with its addresses linker and its *)
(*     data connections (src/radio/SynchronisationServer.py,               *)
(*     src/synchronisation/AddressesLinker.py,                             *)
(*     src/src/synchronisation/Connection.py);                             *)
(*   - the broker-topology radio (src/src/microbit_client/radio.py);       *)
(*   - the broker (src/src/microbit_server/radio.py).                      *)
(* Each part has its own specification over its own group of variables;    *)
(* the other groups stay at their initial value.                           *)
(***************************************************************************)
EXTENDS Integers, Sequences, FiniteSets, TLC

(***************************************************************************)
(* Bounds of the model                                                     *)
(***************************************************************************)
\* orders a client may have in flight on one data connection
MaxInFlight == 1
\* entries the model lets a mailbox hold (a Queue(0) is unbounded)
MaxMailbox == 2
\* frames the radios send to the broker in one run
MaxCmds == 2
\* frames sent over one Connection pair in one run
MaxFrames == 2
\* send_bytes calls of the mesh radio in one run
MaxMeshSends == 1
\* calls made on one SynchronisationClient in one run
MaxClientCalls == 3
\* connections waiting in the backlog of a ConnectionServer
MaxBacklog == 2
\* close() calls made on one ConnectionServer in one run
MaxCloses == 2
\* frames received by one peer in one run
MaxPeerFrames == 2
\* getAddresses calls made by the threads sharing one client
MaxOrderCalls == 3
\* on() calls made on one radio in one run
MaxSessions == 2
\* data connections one SynchronisationClient makes in one run
MaxConnects == 2
\* orders written on one data connection that its server thread has not read
MaxUnread == 3

(***************************************************************************)
(* Synchronisation service: universe                                       *)
(***************************************************************************)
Servers == {"s1", "s2"}
Hosts == {"h1"}
Ports == {1, 2}
Tags == {"t1", "t2"}
Conns == {"c1", "c2"}
NoTag == "none"
None == <<>>

\* Address = Tuple[str, int]
Address == Hosts \X Ports

\* the remote host of a data connection (addr[0] of accept()) and the
\* synchronisation server whose data port it is connected to
connHost(c) == "h1"
connServer(c) == "s1"
peerOf(s) == IF s = "s1" THEN "s2" ELSE "s1"

\* Order.link / Order.unlink / Order.get: exactly one key per order
Orders ==
    [kind : {"link"}, tag : Tags, port : Ports]
    \cup [kind : {"unlink"}, tag : {NoTag}, port : Ports]
    \cup [kind : {"get"}, tag : Tags, port : {0}]

VARIABLES
    \* SynchronisationServer / AddressesLinker
    running,          \* SynchronisationServer.__on, per server
    addresses,        \* AddressesLinker.__addresses, per server: Address -> tag or NoTag
    addresses_lock,   \* AddressesLinker.__addresses_lock held, per server
    gpc,              \* position of the __synchroniseLinker loop, per server
    chan,             \* frames sent by a server on the gossip stream, not yet received
    \* data connections
    stream,           \* the TCP stream of a data connection, seen from the server
    inbox,            \* order frames written by the client, not yet read
    alive,            \* Connection.__alive of the server end
    link,             \* the local `link` of __modifyLinker
    wpc,              \* position of the __modifyLinker worker
    reply,            \* reply frame of a get order, not yet read by the client
    \* history
    quietRounds,      \* gossip rounds completed by a server since the last order
    removed,          \* entries removed at their home server since the last order
    lastOp            \* what the last step did to the linker

VARIABLES
    \* broker-topology Radio (microbit_client.radio.Radio)
    radio,            \* the Radio object: peer, length, queue, channel, power, address, group
    cpc,              \* position of a config() call on the user thread
    cargs,            \* the arguments of that call
    lpc,              \* position of the listener on the listen thread
    lcmd,             \* the mailbox entry the listener is about to put
    ret               \* outcome of the last call made on the radio by the user

radioVars == <<radio, cpc, cargs, lpc, lcmd, ret>>

VARIABLES
    \* broker (microbit_server.radio.RadioServer)
    radios,           \* RadioServer.__radios
    websocket,        \* per peer: the state of its websocket connection
    lthread,          \* per peer: position of its __listen thread
    incoming,         \* per peer: frames it sent that the broker has not read
    bcmd,             \* per peer: the command its __broadcast is sending
    targets,          \* per peer: the radios its __broadcast has still to send to
    nsent,            \* frames sent to the broker so far
    sender,           \* per frame: the peer that sent it
    peerSetAt,        \* per frame: __radios when its __broadcast began
    sendCalls,        \* per frame and peer: send_command calls made
    delivered,        \* per frame and peer: copies written on the peer's websocket
    done              \* per frame: its __broadcast returned

brokerVars == <<radios, websocket, lthread, incoming, bcmd, targets, nsent,
                sender, peerSetAt, sendCalls, delivered, done>>

VARIABLES
    \* threads calling one AddressesLinker
    tpc,              \* per thread: position in the linker method it is running
    tcall,            \* per thread: the call it is running
    progress,         \* calls of its program the first thread has returned from
    interleaved       \* another thread changed the linker between those calls

threadVars == <<tpc, tcall, progress, interleaved>>

VARIABLES
    \* a pair of Connection objects, one on each end of a TCP stream
    calive,           \* per end: Connection.__alive
    broken,           \* the stream broke (reset, host gone)
    wire,             \* per end: bytes it wrote that the other end has not read
    rpc,              \* per end: position of its recv() call
    rdata,            \* per end: `data` of __recv_nbytes
    rnum,             \* per end: `number` of __recv_nbytes
    sentLog,          \* per end: the payloads its send() calls wrote
    recvLog,          \* per end: the payloads its recv() calls returned from the stream
    chunked,          \* some socket.recv returned fewer bytes than asked for
    cret              \* outcome of the last call on a Connection

connVars == <<calive, broken, wire, rpc, rdata, rnum, sentLog, recvLog, chunked, cret>>

VARIABLES
    \* mesh-topology radios (radio.Radio) around one registry
    mon,              \* per radio: Radio.__on
    mtag,             \* per radio: Radio.__group, the tag channel<c>group<g>
    mqueue,           \* per radio: Radio.__data_queue
    registry,         \* the linker of the synchronisation server: radio -> tag
    maddr,            \* Radio.__addr of the sending radio
    mclients,         \* Radio.__connected_clients of the sending radio (its keys)
    mlink,            \* per peer: the connection of the sending radio to it
    mwire,            \* per peer: messages written on that connection, not yet read
    mlock,            \* Radio.__connected_lock of the sending radio is held
    spc,              \* position of the sending radio's send_bytes call
    stodo,            \* send_bytes: keys of the copied map still to visit
    scall,            \* send_bytes: what the running or last call did
    nsends,           \* send_bytes calls made
    mpc               \* position of the __synchroniseAddresses loop of the sending radio

meshVars == <<mon, mtag, mqueue, registry, maddr, mclients, mlink, mwire, mlock,
              spc, stodo, scall, nsends, mpc>>

VARIABLES
    \* one SynchronisationClient and the data port of its server
    dataConnection,   \* SynchronisationClient.__data_connection: "None", or its Connection.__alive
    dataNet,          \* the TCP stream under that Connection: "none", "up" or "rst"
    served,           \* the orders the server has read from the client, in order
    clientRet,        \* outcome of the last call made on the client
    clientCalls       \* calls made on the client so far

clientVars == <<dataConnection, dataNet, served, clientRet, clientCalls>>

VARIABLES
    \* one ConnectionServer and the threads blocked in its accept()
    srvAlive,         \* ConnectionServer.__alive
    srvSocket,        \* ConnectionServer.__socket: "listening" or "closed"
    backlog,          \* connections made to the port, not yet accepted
    apc,              \* per thread: position of its accept() call
    srvRet,           \* outcome of the last close() call
    closeCalls        \* close() calls made so far

serverVars == <<srvAlive, srvSocket, backlog, apc, srvRet, closeCalls>>

VARIABLES
    \* one MicrobitPeer (stdio or websocket) running listen()
    pkind,            \* which class the peer is: "io" or "ws"
    pstream,          \* its input: "open", "eof" (end of input, closed OK) or "error"
    pin,              \* frames received on the input, not yet read by listen()
    pfed,             \* frames received so far
    plisteners,       \* MicrobitPeer.__listeners
    is_listening,     \* MicrobitPeer.__is_listening
    ppc,              \* position of the listen() call
    pcmd,             \* listen(): `command`
    piter,            \* listen(): the iterator of `for listener in self.__listeners`
    plog,             \* per listener: the commands it was called with, in order
    pseen,            \* the valid commands read, each with the listeners registered then
    pskipped          \* invalid frames read so far

peerVars == <<pkind, pstream, pin, pfed, plisteners, is_listening, ppc, pcmd,
              piter, plog, pseen, pskipped>>

VARIABLES
    \* Radio.receive_bytes_into: a Radio, the caller's bytearray and the result
    bradio,           \* the Radio object: peer (on) and the messages of its mailbox
    rbuffer,          \* the caller's bytearray
    bret              \* outcome of the last receive_bytes_into call

bufferVars == <<bradio, rbuffer, bret>>

VARIABLES
    \* a command on its way through send_command and validate_json
    ccmd,             \* the command given to send_command
    cstage,           \* "none", "chosen", "encoded", "raised" or "decoded"
    cjson,            \* the JSON send_command wrote
    cdecoded          \* what validate_json made of it

codecVars == <<ccmd, cstage, cjson, cdecoded>>

VARIABLES
    \* two synchronisation servers that have each other among their targets
    srun,             \* per server: SynchronisationServer.__on
    connected_servers,\* per server: the address of the other is in __connected_servers
    gpos,             \* per server and thread: position of the connect worker (W) and of
                      \* the thread started by __acceptSyncConnection (H)
    inSync,           \* per server: `inSync` of __connectToSyncServer
    gconn             \* per initiating server: the synchronisation connection it made

discVars == <<srun, connected_servers, gpos, inSync, gconn>>

VARIABLES
    \* one SynchronisationClient shared by several threads
    data_lock,        \* SynchronisationClient.__data_lock: "free" or the holder
    opc,              \* per thread: position in getAddresses / sendOrder
    ovalue,           \* per thread: the value of its get order
    owire,            \* get orders written to the data connection, not yet read
    oreply,           \* replies written by the server, not yet read
    odata,            \* per thread: the data its recv() returned
    oresult,          \* per thread: its last call and what it returned
    ocalls            \* getAddresses calls made so far

orderVars == <<data_lock, opc, ovalue, owire, oreply, odata, oresult, ocalls>>

VARIABLES
    \* the background workers of one mesh radio over its on() sessions
    won,              \* Radio.__on
    wsession,         \* on() calls made so far; the last one is the current session
    wserver,          \* per session: the ConnectionServer its on() created
    wclient,          \* the SynchronisationClient is connected
    acceptpc,         \* per session: position of its __acceptClientConnection thread
    acceptOn,         \* per session: the server its thread's accept() was called on
    syncpc,           \* per session: position of its __synchroniseAddresses thread
    readpc,           \* per session: position of the __receiveData thread it started
    ralive,           \* per session: Connection.alive of that thread's connection
    rin,              \* per session: a message is waiting on that connection
    woff              \* per session: off() has returned for it

workVars == <<won, wsession, wserver, wclient, acceptpc, acceptOn, syncpc,
              readpc, ralive, rin, woff>>

VARIABLES
    \* one mesh radio, its SynchronisationClient and the data port of the server
    aon,              \* Radio.__on
    atag,             \* Radio.__group, the tag channel<c>group<g>
    aconn,            \* SynchronisationClient.__data_connection: 0 (None) or a connection
    anext,            \* data connections made so far
    aup,              \* per connection: its stream is up
    awire,            \* per connection: orders written, not yet read by the server
    alink,            \* per connection: `link` of its __modifyLinker thread is not None
    aended,           \* per connection: its __modifyLinker thread has ended
    areg,             \* the linker of the server: the tag of the radio's address
    alock,            \* the lock of that linker is held
    aowner            \* the connection whose link order placed the entry, or 0

annVars == <<aon, atag, aconn, anext, aup, awire, alink, aended, areg, alock,
             aowner>>

VARIABLES
    \* the length and queue settings of one mesh radio that is on
    attr_length,      \* Radio._length: <<>> while the attribute does not exist
    priv_length,      \* Radio.__length (the attribute _Radio__length)
    attr_queue_size,  \* Radio._queue_size: <<>> while the attribute does not exist
    priv_queue_size,  \* Radio.__queue_size (the attribute _Radio__queue_size)
    data_queue,       \* Radio.__data_queue: its maxsize and the messages it holds
    kwcall,           \* the last config() call that returned: its kwargs
    kwret             \* the last send_bytes call: the message length and the outcome

kwVars == <<attr_length, priv_length, attr_queue_size, priv_queue_size,
            data_queue, kwcall, kwret>>

VARIABLES
    \* one broker-topology radio (microbit_client.radio.Radio) over its on() sessions
    bpeer,            \* Radio.__peer: 0 (None) or the session whose peer it is
    bsessions,        \* on() calls that connected so far
    bsocket,          \* per session: the websocket of its peer
    blisten,          \* per session: position of the listen thread on() started
    bis_listening,    \* per session: __is_listening of its peer
    bframe            \* per session: a command of the broker is waiting on the websocket

sessVars == <<bpeer, bsessions, bsocket, blisten, bis_listening, bframe>>

VARIABLES
    \* processes importing the radio module on one host
    ipc,              \* per process: position of the importing thread in radio/_internal.py
    srvpc,            \* per process: position of its broker thread (start -> server.start)
    port8766,         \* the process whose broker listens on the port, or "free"
    iconn,            \* per process: the connection of its radio to the broker
    iradios           \* per process: RadioServer.__radios of its broker (the processes of the peers)

importVars == <<ipc, srvpc, port8766, iconn, iradios>>

syncVars == <<running, addresses, addresses_lock, gpc, chan, stream, inbox,
              alive, link, wpc, reply, quietRounds, removed, lastOp>>

vars == <<syncVars, radioVars, brokerVars, threadVars, connVars, meshVars,
               clientVars,
               serverVars,
               peerVars,
               bufferVars,
               codecVars,
               discVars,
               orderVars,
               workVars,
               annVars,
               kwVars,
               sessVars,
               importVars>>

\* the variables that the actions of one part leave alone
notSync == <<radioVars, brokerVars, threadVars, connVars, meshVars,
               clientVars,
               serverVars,
               peerVars,
               bufferVars,
               codecVars,
               discVars,
               orderVars,
               workVars,
               annVars,
               kwVars,
               sessVars,
               importVars>>
notRadio == <<syncVars, brokerVars, threadVars, connVars, meshVars,
               clientVars,
               serverVars,
               peerVars,
               bufferVars,
               codecVars,
               discVars,
               orderVars,
               workVars,
               annVars,
               kwVars,
               sessVars,
               importVars>>
notBroker == <<syncVars, radioVars, threadVars, connVars, meshVars,
               clientVars,
               serverVars,
               peerVars,
               bufferVars,
               codecVars,
               discVars,
               orderVars,
               workVars,
               annVars,
               kwVars,
               sessVars,
               importVars>>
notLinker == <<running, gpc, chan, stream, inbox, alive, link, wpc, reply,
               quietRounds, removed, lastOp, radioVars, brokerVars, connVars,
               meshVars,
               clientVars,
               serverVars,
               peerVars,
               bufferVars,
               codecVars,
               discVars,
               orderVars,
               workVars,
               annVars,
               kwVars,
               sessVars,
               importVars>>
notConn == <<syncVars, radioVars, brokerVars, threadVars, meshVars,
               clientVars,
               serverVars,
               peerVars,
               bufferVars,
               codecVars,
               discVars,
               orderVars,
               workVars,
               annVars,
               kwVars,
               sessVars,
               importVars>>
notMesh == <<syncVars, radioVars, brokerVars, threadVars, connVars,
               clientVars,
               serverVars,
               peerVars,
               bufferVars,
               codecVars,
               discVars,
               orderVars,
               workVars,
               annVars,
               kwVars,
               sessVars,
               importVars>>
notClient == <<syncVars, radioVars, brokerVars, threadVars, connVars, meshVars,
               serverVars,
               peerVars,
               bufferVars,
               codecVars,
               discVars,
               orderVars,
               workVars,
               annVars,
               kwVars,
               sessVars,
               importVars>>
notServer == <<syncVars, radioVars, brokerVars, threadVars, connVars, meshVars, clientVars,
               peerVars,
               bufferVars,
               codecVars,
               discVars,
               orderVars,
               workVars,
               annVars,
               kwVars,
               sessVars,
               importVars>>
notPeer == <<syncVars, radioVars, brokerVars, threadVars, connVars, meshVars, clientVars, serverVars,
               bufferVars,
               codecVars,
               discVars,
               orderVars,
               workVars,
               annVars,
               kwVars,
               sessVars,
               importVars>>
notBuffer == <<syncVars, radioVars, brokerVars, threadVars, connVars, meshVars, clientVars, serverVars, peerVars,
               codecVars,
               discVars,
               orderVars,
               workVars,
               annVars,
               kwVars,
               sessVars,
               importVars>>
notCodec == <<syncVars, radioVars, brokerVars, threadVars, connVars, meshVars, clientVars, serverVars, peerVars, bufferVars,
               discVars,
               orderVars,
               workVars,
               annVars,
               kwVars,
               sessVars,
               importVars>>
notDisc == <<syncVars, radioVars, brokerVars, threadVars, connVars, meshVars, clientVars, serverVars, peerVars, bufferVars, codecVars,
               orderVars,
               workVars,
               annVars,
               kwVars,
               sessVars,
               importVars>>
notOrder == <<syncVars, radioVars, brokerVars, threadVars, connVars, meshVars, clientVars, serverVars, peerVars, bufferVars, codecVars, discVars,
               workVars,
               annVars,
               kwVars,
               sessVars,
               importVars>>
notWork == <<syncVars, radioVars, brokerVars, threadVars, connVars, meshVars, clientVars, serverVars, peerVars, bufferVars, codecVars, discVars, orderVars,
               annVars,
               kwVars,
               sessVars,
               importVars>>
notAnn == <<syncVars, radioVars, brokerVars, threadVars, connVars, meshVars, clientVars, serverVars, peerVars, bufferVars, codecVars, discVars, orderVars, workVars,
               kwVars,
               sessVars,
               importVars>>
notKw == <<syncVars, radioVars, brokerVars, threadVars, connVars, meshVars, clientVars, serverVars, peerVars, bufferVars, codecVars, discVars, orderVars, workVars, annVars,
               sessVars,
               importVars>>
notSess == <<syncVars, radioVars, brokerVars, threadVars, connVars, meshVars, clientVars, serverVars, peerVars, bufferVars, codecVars, discVars, orderVars, workVars, annVars, kwVars,
               importVars>>
notImport == <<syncVars, radioVars, brokerVars, threadVars, connVars, meshVars, clientVars, serverVars, peerVars, bufferVars, codecVars, discVars, orderVars, workVars, annVars, kwVars, sessVars>>

(***************************************************************************)
(* Broker-topology radio: constants of radio.py and commands/radio.py      *)
(***************************************************************************)
MIN_LENGTH == 0
MAX_LENGTH == 254
MIN_CHANNEL == 0
MAX_CHANNEL == 83
MIN_GROUP == 0
MAX_GROUP == 255
MIN_POWER == 0
MAX_POWER == 7
MIN_QUEUE == 0
INVERT_POWER_TO_RSSI == 8
RATE_250KBIT == 250
RATE_1MBIT == 1000
RATE_2MBIT == 2000
MESSAGE_PREFIX == <<1, 0, 1>>
DefaultAddress == 1970168948

\* the defaults of config()
DefaultConfig ==
    [length |-> 32, queue |-> 3, channel |-> 7, power |-> 6,
     address |-> DefaultAddress, group |-> 0, data_rate |-> RATE_1MBIT]

\* the config() calls of the model: the defaults with one keyword given,
\* on both sides of each check
ConfigCalls ==
    {DefaultConfig}
    \cup {[DefaultConfig EXCEPT !.length = v] : v \in {0, 2, 255}}
    \cup {[DefaultConfig EXCEPT !.queue = v] : v \in {-1, 0, 1}}
    \cup {[DefaultConfig EXCEPT !.channel = v] : v \in {8, 84}}
    \cup {[DefaultConfig EXCEPT !.power = v] : v \in {8}}
    \cup {[DefaultConfig EXCEPT !.address = v] : v \in {-1, 1}}
    \cup {[DefaultConfig EXCEPT !.group = v] : v \in {1, 256}}
    \cup {[DefaultConfig EXCEPT !.data_rate = v] : v \in {500}}

\* strings as sequences of code points; messages as sequences of bytes
Strings == {<<>>, <<104>>, <<233>>}
RawMessages == {<<104>>, <<255>>}

\* what another radio connected to the same broker calls: send(s) or
\* send_bytes(m), under its own configuration
PeerCalls ==
    [kind : {"send"}, arg : Strings] \cup [kind : {"send_bytes"}, arg : RawMessages]
PeerConfigs ==
    [length : {2, 32}, channel : {7, 8}, power : {6},
     address : {DefaultAddress, 1}, group : {0, 1}]
NoSrc == [cfg |-> [length |-> 0, channel |-> 0, power |-> 0, address |-> 0, group |-> 0],
          call |-> [kind |-> "none", arg |-> <<>>]]

(***************************************************************************)
(* Conversions                                                             *)
(***************************************************************************)
\* bytes(message, "utf8"), code points below 2048
RECURSIVE Utf8Encode(_)
Utf8Encode(str) ==
    IF str = <<>> THEN <<>>
    ELSE (IF Head(str) < 128
          THEN <<Head(str)>>
          ELSE <<192 + (Head(str) \div 64), 128 + (Head(str) % 64)>>)
         \o Utf8Encode(Tail(str))

\* str(message, "utf8"): the string, or a UnicodeDecodeError (ok = FALSE)
RECURSIVE Utf8Decode(_)
Utf8Decode(b) ==
    IF b = <<>> THEN [ok |-> TRUE, str |-> <<>>]
    ELSE IF b[1] < 128
    THEN LET r == Utf8Decode(Tail(b)) IN
         [ok |-> r.ok, str |-> IF r.ok THEN <<b[1]>> \o r.str ELSE <<>>]
    ELSE IF b[1] \in 194..223 /\ Len(b) >= 2 /\ b[2] \in 128..191
    THEN LET r == Utf8Decode(SubSeq(b, 3, Len(b))) IN
         [ok |-> r.ok,
          str |-> IF r.ok THEN <<(b[1] - 192) * 64 + (b[2] - 128)>> \o r.str ELSE <<>>]
    ELSE [ok |-> FALSE, str |-> <<>>]

\* bytes.startswith
startswith(m, prefix) ==
    Len(m) >= Len(prefix) /\ SubSeq(m, 1, Len(prefix)) = prefix

\* RadioSendBytesCommand(...).model_dump_json(): the message bytes become a
\* JSON string by UTF-8 decoding; bytes that are no UTF-8 make it raise
model_dump_json(command) ==
    LET d == Utf8Decode(command.message) IN
    [ok |-> d.ok, json |-> [command EXCEPT !.message = d.str]]

\* MicrobitCommandAdapter.validate_json(): the fields are range-checked and
\* the JSON string becomes bytes by UTF-8 encoding
validate_json(json) ==
    LET m == Utf8Encode(json.message) IN
    [ok |-> /\ json.command = "radio.send_bytes"
            /\ json.channel >= MIN_CHANNEL /\ json.channel <= MAX_CHANNEL
            /\ json.group >= MIN_GROUP /\ json.group <= MAX_GROUP
            /\ json.power >= MIN_POWER /\ json.power <= MAX_POWER
            /\ Len(m) >= MIN_LENGTH /\ Len(m) <= MAX_LENGTH,
     command |-> [json EXCEPT !.message = m]]

(***************************************************************************)
(* Radio: the methods as functions of the Radio object                     *)
(***************************************************************************)
\* queue.Queue: maxsize <= 0 means no limit
Queue(maxsize) == [maxsize |-> maxsize, items |-> <<>>]
full(q) == 0 < q.maxsize /\ q.maxsize <= Len(q.items)

\* Radio.config, lines 127-143: the argument checks
configRaises(a) ==
    \/ a.length < MIN_LENGTH \/ MAX_LENGTH < a.length
    \/ a.queue < MIN_QUEUE
    \/ a.channel < MIN_CHANNEL \/ MAX_CHANNEL < a.channel
    \/ a.power < MIN_POWER \/ MAX_POWER < a.power
    \/ a.group < MIN_GROUP \/ MAX_GROUP < a.group
    \/ a.data_rate \notin {RATE_250KBIT, RATE_1MBIT, RATE_2MBIT}

\* Radio.config, lines 145-150: the assignments, in their order
ConfigOrder == <<"length", "queue", "channel", "power", "address", "group">>
configAssign(r, a, i) ==
    CASE ConfigOrder[i] = "length" -> [r EXCEPT !.length = a.length]
      [] ConfigOrder[i] = "queue" -> [r EXCEPT !.queue = Queue(a.queue)]
      [] ConfigOrder[i] = "channel" -> [r EXCEPT !.channel = a.channel]
      [] ConfigOrder[i] = "power" -> [r EXCEPT !.power = a.power]
      [] ConfigOrder[i] = "address" -> [r EXCEPT !.address = a.address]
      [] ConfigOrder[i] = "group" -> [r EXCEPT !.group = a.group]

RECURSIVE configFrom(_, _, _)
configFrom(r, a, i) ==
    IF i > Len(ConfigOrder) THEN r ELSE configFrom(configAssign(r, a, i), a, i + 1)

\* Radio.config as a whole
config(r, a) == IF configRaises(a) THEN r ELSE configFrom(r, a, 1)

\* a send_bytes that sends whatever the length
sendBytesUnchecked(length, message) == TRUE

\* Radio.send_bytes, line 172: the length check
sendBytesAccepts(length, message) == Len(message) <= length

\* Radio.send_bytes / Radio.send of a radio with configuration cfg: the
\* command it sends, if any (sent = FALSE: the call raised)
sendCommand(cfg, call) ==
    LET message == IF call.kind = "send"
                   THEN MESSAGE_PREFIX \o Utf8Encode(call.arg)
                   ELSE call.arg
    IN [sent |-> sendBytesAccepts(cfg.length, message),
        command |-> [command |-> "radio.send_bytes", address |-> cfg.address,
                     channel |-> cfg.channel, group |-> cfg.group,
                     power |-> cfg.power, message |-> message]]

\* Radio.on.listener, lines 67-74: the condition under which the command is
\* put in the mailbox
listenerAdmits(r, command) ==
    ~ ( \/ command.command # "radio.send_bytes"
        \/ command.address # r.address
        \/ command.channel # r.channel
        \/ command.group # r.group
        \/ full(r.queue) )

\* Radio.on.listener, lines 76-82: the entry put in the mailbox (the
\* timestamp is left out); src is history: who sent it and by which call
entry(command, src) ==
    [message |-> command.message,
     rssi |-> (MAX_POWER - command.power) * INVERT_POWER_TO_RSSI,
     src |-> src]

\* Radio.receive, lines 254-260, on a message taken from the mailbox
receive(message) ==
    IF ~startswith(message, MESSAGE_PREFIX)
    THEN [raised |-> TRUE, value |-> <<>>]
    ELSE LET d == Utf8Decode(message) IN
         [raised |-> ~d.ok, value |-> d.str]

(***************************************************************************)
(* Radio: state after Radio(host, port), and the operations                *)
(***************************************************************************)
NoEntry == [message |-> <<>>, rssi |-> 0, src |-> NoSrc]
NoRet == [call |-> "none", raised |-> FALSE, none |-> TRUE, value |-> <<>>,
          rssi |-> 0, src |-> NoSrc, sent |-> <<>>]

\* __init__: no peer, then reset(), which is config() with the defaults
RadioInit ==
    /\ radio = config([peer |-> FALSE, length |-> 0, queue |-> Queue(0),
                       channel |-> 0, power |-> 0, address |-> 0, group |-> 0],
                      DefaultConfig)
    /\ cpc = 0
    /\ cargs = DefaultConfig
    /\ lpc = "idle"
    /\ lcmd = NoEntry
    /\ ret = NoRet

\* a command sent by another radio as the listener of this radio gets it:
\* serialised by the sender, validated and serialised again by the broker,
\* validated by this radio's peer (ok = FALSE: lost on the way)
relayed(command) ==
    LET d1 == model_dump_json(command)
        v1 == validate_json(d1.json)
        d2 == model_dump_json(v1.command)
        v2 == validate_json(d2.json)
    IN [ok |-> d1.ok /\ v1.ok /\ d2.ok /\ v2.ok, command |-> v2.command]

userIdle == cpc = 0

\* a receive that takes a message although the radio is off
pendingIgnoringOff(r) == r.queue.items # <<>>

\* receive_bytes / receive_full: the radio is on (self.__peer is not None)
\* and get_nowait() finds a message
pending(r) == r.peer /\ r.queue.items # <<>>

\* Radio.on
On ==
    /\ userIdle
    /\ ~radio.peer
    /\ radio' = [radio EXCEPT !.peer = TRUE]
    /\ ret' = NoRet
    /\ UNCHANGED <<cpc, cargs, lpc, lcmd>>
    /\ UNCHANGED notRadio

\* Radio.off
Off ==
    /\ userIdle
    /\ radio.peer
    /\ lpc = "idle"
    /\ radio' = [radio EXCEPT !.peer = FALSE]
    /\ ret' = NoRet
    /\ UNCHANGED <<cpc, cargs, lpc, lcmd>>
    /\ UNCHANGED notRadio

\* Radio.config(**a), run without interruption
Config(a) ==
    /\ userIdle
    /\ lpc = "idle"
    /\ radio' = config(radio, a)
    /\ ret' = [NoRet EXCEPT !.call = "config", !.raised = configRaises(a)]
    /\ UNCHANGED <<cpc, cargs, lpc, lcmd>>
    /\ UNCHANGED notRadio

\* Radio.send / Radio.send_bytes called on this radio: nothing when it is
\* off; ValueError when the message is too long; otherwise send_command,
\* which raises when model_dump_json does. value: the bytes to send; sent:
\* the commands written on the peer
Send(call) ==
    LET sc == sendCommand(radio, call)
        d == model_dump_json(sc.command)
    IN
    /\ userIdle
    /\ ret' = [NoRet EXCEPT !.call = call.kind,
                            !.value = sc.command.message,
                            !.raised = radio.peer /\ (~sc.sent \/ ~d.ok),
                            !.sent = IF radio.peer /\ sc.sent /\ d.ok
                                     THEN <<sc.command>> ELSE <<>>]
    /\ UNCHANGED <<radio, cpc, cargs, lpc, lcmd>>
    /\ UNCHANGED notRadio

\* the listener called with a command that another radio (configuration
\* cfg) sent by `call`, run without interruption: check, then put
Listen(cfg, call) ==
    LET sc == sendCommand(cfg, call)
        rc == relayed(sc.command)
    IN
    /\ radio.peer
    /\ lpc = "idle"
    /\ sc.sent /\ rc.ok
    /\ listenerAdmits(radio, rc.command)
    /\ Len(radio.queue.items) < MaxMailbox
    /\ radio' = [radio EXCEPT !.queue.items =
                    Append(@, entry(rc.command, [cfg |-> cfg, call |-> call]))]
    /\ UNCHANGED <<cpc, cargs, lpc, lcmd, ret>>
    /\ UNCHANGED notRadio

\* Radio.receive_full
ReceiveFull ==
    /\ userIdle
    /\ IF pending(radio)
       THEN LET e == Head(radio.queue.items) IN
            /\ radio' = [radio EXCEPT !.queue.items = Tail(@)]
            /\ ret' = [call |-> "receive_full", raised |-> FALSE, none |-> FALSE,
                       value |-> e.message, rssi |-> e.rssi, src |-> e.src,
                       sent |-> <<>>]
       ELSE /\ ret' = [NoRet EXCEPT !.call = "receive_full"]
            /\ UNCHANGED radio
    /\ UNCHANGED <<cpc, cargs, lpc, lcmd>>
    /\ UNCHANGED notRadio

\* Radio.receive_bytes
ReceiveBytes ==
    /\ userIdle
    /\ IF pending(radio)
       THEN LET e == Head(radio.queue.items) IN
            /\ radio' = [radio EXCEPT !.queue.items = Tail(@)]
            /\ ret' = [call |-> "receive_bytes", raised |-> FALSE, none |-> FALSE,
                       value |-> e.message, rssi |-> 0, src |-> e.src,
                       sent |-> <<>>]
       ELSE /\ ret' = [NoRet EXCEPT !.call = "receive_bytes"]
            /\ UNCHANGED radio
    /\ UNCHANGED <<cpc, cargs, lpc, lcmd>>
    /\ UNCHANGED notRadio

\* Radio.receive
Receive ==
    /\ userIdle
    /\ IF pending(radio)
       THEN LET e == Head(radio.queue.items)
                r == receive(e.message)
            IN
            /\ radio' = [radio EXCEPT !.queue.items = Tail(@)]
            /\ ret' = [call |-> "receive", raised |-> r.raised, none |-> FALSE,
                       value |-> r.value, rssi |-> 0, src |-> e.src,
                       sent |-> <<>>]
       ELSE /\ ret' = [NoRet EXCEPT !.call = "receive"]
            /\ UNCHANGED radio
    /\ UNCHANGED <<cpc, cargs, lpc, lcmd>>
    /\ UNCHANGED notRadio

(***************************************************************************)
(* Radio with its two threads interleaved: config() on the user thread     *)
(* assigns the attributes one by one, the listener on the listen thread    *)
(* checks the command and then puts it in self.__queue                     *)
(***************************************************************************)
\* config(): the checks pass, the assignments begin
ConfigBegin(a) ==
    /\ userIdle
    /\ ~configRaises(a)
    /\ cpc' = 1
    /\ cargs' = a
    /\ ret' = NoRet
    /\ UNCHANGED <<radio, lpc, lcmd>>
    /\ UNCHANGED notRadio

\* config(): the next assignment
ConfigStep ==
    /\ cpc \in 1..Len(ConfigOrder)
    /\ radio' = configAssign(radio, cargs, cpc)
    /\ cpc' = IF cpc = Len(ConfigOrder) THEN 0 ELSE cpc + 1
    /\ UNCHANGED <<cargs, lpc, lcmd, ret>>
    /\ UNCHANGED notRadio

\* listener: the condition is evaluated and the command passes
ListenerCheck(cfg, call) ==
    LET sc == sendCommand(cfg, call)
        rc == relayed(sc.command)
    IN
    /\ radio.peer
    /\ lpc = "idle"
    /\ sc.sent /\ rc.ok
    /\ listenerAdmits(radio, rc.command)
    /\ Len(radio.queue.items) < MaxMailbox
    /\ lpc' = "put"
    /\ lcmd' = entry(rc.command, [cfg |-> cfg, call |-> call])
    /\ UNCHANGED <<radio, cpc, cargs, ret>>
    /\ UNCHANGED notRadio

\* listener: self.__queue.put(...), on the queue the radio has now
ListenerPut ==
    /\ lpc = "put"
    /\ ~full(radio.queue)
    /\ radio' = [radio EXCEPT !.queue.items = Append(@, lcmd)]
    /\ lpc' = "idle"
    /\ lcmd' = NoEntry
    /\ UNCHANGED <<cpc, cargs, ret>>
    /\ UNCHANGED notRadio

RadioNext ==
    \/ On
    \/ Off
    \/ \E a \in ConfigCalls : Config(a)
    \/ \E call \in PeerCalls : Send(call)
    \/ \E cfg \in PeerConfigs, call \in PeerCalls : Listen(cfg, call)
    \/ ReceiveFull
    \/ ReceiveBytes
    \/ Receive

RadioRaceNext ==
    \/ On
    \/ \E a \in ConfigCalls : ConfigBegin(a)
    \/ ConfigStep
    \/ \E cfg \in PeerConfigs, call \in [kind : {"send_bytes"}, arg : RawMessages] :
            ListenerCheck(cfg, call)
    \/ ListenerPut

(***************************************************************************)
(* Broker: RadioServer                                                     *)
(***************************************************************************)
Peers == {"X", "Y", "Z"}
CmdIds == 1..MaxCmds
NoPeer == "-"

\* __init__: no radio; no connection accepted yet
BrokerInit ==
    /\ radios = {}
    /\ websocket = [p \in Peers |-> "none"]
    /\ lthread = [p \in Peers |-> "none"]
    /\ incoming = [p \in Peers |-> <<>>]
    /\ bcmd = [p \in Peers |-> 0]
    /\ targets = [p \in Peers |-> {}]
    /\ nsent = 0
    /\ sender = [k \in CmdIds |-> NoPeer]
    /\ peerSetAt = [k \in CmdIds |-> {}]
    /\ sendCalls = [k \in CmdIds |-> [p \in Peers |-> 0]]
    /\ delivered = [k \in CmdIds |-> [p \in Peers |-> 0]]
    /\ done = [k \in CmdIds |-> FALSE]

\* the radios __broadcast echoes to
broadcastWithEcho(rs, peer) == rs

\* __broadcast, line 57: the radios a command of `peer` is sent to
broadcastTargets(rs, peer) == rs \ {peer}

\* start: a connection is accepted; the peer joins __radios, gets its
\* __broadcast listener and its __listen thread
Accept(p) ==
    /\ websocket[p] = "none"
    /\ websocket' = [websocket EXCEPT ![p] = "open"]
    /\ radios' = radios \cup {p}
    /\ lthread' = [lthread EXCEPT ![p] = "listen"]
    /\ UNCHANGED <<incoming, bcmd, targets, nsent, sender, peerSetAt,
                   sendCalls, delivered, done>>
    /\ UNCHANGED notBroker

\* the radio behind peer p writes a frame on its websocket: a command
\* (valid) or something validate_json rejects
PeerSend(p, valid) ==
    /\ websocket[p] = "open"
    /\ nsent < MaxCmds
    /\ nsent' = nsent + 1
    /\ incoming' = [incoming EXCEPT ![p] = Append(@, [id |-> nsent + 1, valid |-> valid])]
    /\ sender' = [sender EXCEPT ![nsent + 1] = p]
    /\ UNCHANGED <<radios, websocket, lthread, bcmd, targets, peerSetAt,
                   sendCalls, delivered, done>>
    /\ UNCHANGED notBroker

\* the radio behind peer p closes its connection (or it breaks)
PeerClose(p) ==
    /\ websocket[p] = "open"
    /\ websocket' = [websocket EXCEPT ![p] = "closed"]
    /\ UNCHANGED <<radios, lthread, incoming, bcmd, targets, nsent, sender,
                   peerSetAt, sendCalls, delivered, done>>
    /\ UNCHANGED notBroker

\* peer.listen: recv() returns a frame; an invalid one is logged and
\* skipped; a command is given to the listener, __broadcast, which takes its
\* copy of __radios under the lock
ListenRecv(p) ==
    LET f == Head(incoming[p]) IN
    /\ lthread[p] = "listen"
    /\ incoming[p] # <<>>
    /\ incoming' = [incoming EXCEPT ![p] = Tail(@)]
    /\ IF f.valid
       THEN /\ lthread' = [lthread EXCEPT ![p] = "broadcast"]
            /\ bcmd' = [bcmd EXCEPT ![p] = f.id]
            /\ targets' = [targets EXCEPT ![p] = broadcastTargets(radios, p)]
            /\ peerSetAt' = [peerSetAt EXCEPT ![f.id] = radios]
       ELSE UNCHANGED <<lthread, bcmd, targets, peerSetAt>>
    /\ UNCHANGED <<radios, websocket, nsent, sender, sendCalls, delivered, done>>
    /\ UNCHANGED notBroker

\* __broadcast: radio.send_command(command) for the next radio of the copy;
\* on a closed connection it raises CommunicationClosedError: continue
BroadcastSend(p, q) ==
    LET k == bcmd[p] IN
    /\ lthread[p] = "broadcast"
    /\ q \in targets[p]
    /\ targets' = [targets EXCEPT ![p] = @ \ {q}]
    /\ sendCalls' = [sendCalls EXCEPT ![k][q] = @ + 1]
    /\ delivered' = [delivered EXCEPT ![k][q] =
                        IF websocket[q] = "open" THEN @ + 1 ELSE @]
    /\ UNCHANGED <<radios, websocket, lthread, incoming, bcmd, nsent, sender,
                   peerSetAt, done>>
    /\ UNCHANGED notBroker

\* __broadcast returns; peer.listen goes back to recv()
BroadcastReturn(p) ==
    /\ lthread[p] = "broadcast"
    /\ targets[p] = {}
    /\ lthread' = [lthread EXCEPT ![p] = "listen"]
    /\ done' = [done EXCEPT ![bcmd[p]] = TRUE]
    /\ bcmd' = [bcmd EXCEPT ![p] = 0]
    /\ UNCHANGED <<radios, websocket, incoming, targets, nsent, sender,
                   peerSetAt, sendCalls, delivered>>
    /\ UNCHANGED notBroker

\* peer.listen ends on the closed connection (the frames received before
\* the close have been read); __listen removes the peer from __radios
ListenEnd(p) ==
    /\ lthread[p] = "listen"
    /\ websocket[p] = "closed"
    /\ incoming[p] = <<>>
    /\ radios' = radios \ {p}
    /\ lthread' = [lthread EXCEPT ![p] = "ended"]
    /\ UNCHANGED <<websocket, incoming, bcmd, targets, nsent, sender,
                   peerSetAt, sendCalls, delivered, done>>
    /\ UNCHANGED notBroker

BrokerNext ==
    \/ \E p \in Peers : Accept(p)
    \/ \E p \in Peers, valid \in BOOLEAN : PeerSend(p, valid)
    \/ \E p \in Peers : PeerClose(p)
    \/ \E p \in Peers : ListenRecv(p)
    \/ \E p \in Peers, q \in Peers : BroadcastSend(p, q)
    \/ \E p \in Peers : BroadcastReturn(p)
    \/ \E p \in Peers : ListenEnd(p)

(***************************************************************************)
(* AddressesLinker                                                         *)
(***************************************************************************)
EmptyLinker == [a \in Address |-> NoTag]

\* a linkAddress that keeps the value an address already has
linkKeepFirst(A, a, v) == IF A[a] # NoTag THEN A ELSE [A EXCEPT ![a] = v]

\* linkAddress: self.__addresses[address] = value
linkAddress(A, a, v) == [A EXCEPT ![a] = v]

\* unlinkAddress: acquire; self.__addresses.pop(address); release.
\* dict.pop without a default raises KeyError on a missing key, after the
\* acquire and before the release: the lock stays held.
unlinkAddress(A, a) ==
    IF A[a] # NoTag
    THEN [addresses |-> [A EXCEPT ![a] = NoTag], lock |-> FALSE, raised |-> FALSE]
    ELSE [addresses |-> A, lock |-> TRUE, raised |-> TRUE]

\* mergeAddressesLinker: self.__addresses.update(addressesLinker.addresses)
mergeAddressesLinker(A, other) ==
    [a \in Address |-> IF other[a] # NoTag THEN other[a] ELSE A[a]]

\* getValues: tag -> addresses linked with it, for the requested tags
getValues(A, values) == [v \in values |-> {a \in Address : A[a] = v}]

\* toJSON: {tag: [[host, port], ...]} for the tags that are present
toJSON(A) ==
    [t \in {A[a] : a \in Address} \ {NoTag} |-> {a \in Address : A[a] = t}]

\* fromJSON: linkAddress(tuple(addr), value) for every addr of every value
fromJSON(j) ==
    [a \in Address |->
        IF \E t \in DOMAIN j : a \in j[t]
        THEN CHOOSE t \in DOMAIN j : a \in j[t]
        ELSE NoTag]

(***************************************************************************)
(* Initial state of the synchronisation service: servers constructed, not  *)
(* started; no connection.                                                 *)
(***************************************************************************)
NoOrder == [kind |-> "none", tag |-> NoTag, port |-> 0]
\* lastOp: the last call made on an AddressesLinker through its interface:
\* the method, the linker it was called on, its address argument, whether the
\* address was in the linker, the linker's map before the call, and whether
\* the call raised
NoOp == [op |-> "none", target |-> "-", addr |-> None, present |-> FALSE,
         before |-> [a \in Address |-> NoTag], raised |-> FALSE]

SyncInit ==
    /\ running = [s \in Servers |-> FALSE]
    /\ addresses = [s \in Servers |-> EmptyLinker]
    /\ addresses_lock = [s \in Servers |-> FALSE]
    /\ gpc = [s \in Servers |-> "off"]
    /\ chan = [s \in Servers |-> <<>>]
    /\ stream = [c \in Conns |-> "none"]
    /\ inbox = [c \in Conns |-> <<>>]
    /\ alive = [c \in Conns |-> FALSE]
    /\ link = [c \in Conns |-> None]
    /\ wpc = [c \in Conns |-> "none"]
    /\ reply = [c \in Conns |-> <<>>]
    /\ quietRounds = [s \in Servers |-> 0]
    /\ removed = {}
    /\ lastOp = NoOp

\* SynchronisationServer.start
Start(s) ==
    /\ ~running[s]
    /\ running' = [running EXCEPT ![s] = TRUE]
    /\ UNCHANGED <<addresses, addresses_lock, gpc, chan, stream, inbox, alive,
                   link, wpc, reply, quietRounds, removed, lastOp>>
    /\ UNCHANGED notSync

(***************************************************************************)
(* Synchronisation client side of a data connection                        *)
(***************************************************************************)
\* the client connects to the data port; __acceptDataConnection accepts and
\* starts a __modifyLinker worker for the connection (link = None)
ClientConnect(c) ==
    /\ running[connServer(c)]
    /\ stream[c] = "none"
    /\ stream' = [stream EXCEPT ![c] = "open"]
    /\ alive' = [alive EXCEPT ![c] = TRUE]
    /\ link' = [link EXCEPT ![c] = None]
    /\ wpc' = [wpc EXCEPT ![c] = "recv"]
    /\ UNCHANGED <<running, addresses, addresses_lock, gpc, chan, inbox, reply,
                   quietRounds, removed, lastOp>>
    /\ UNCHANGED notSync

\* SynchronisationClient.sendOrder: one order frame written to the stream; a
\* get order is followed by the read of its reply, so none is sent while a
\* reply is unread
ClientSendOrder(c, o) ==
    /\ stream[c] = "open"
    /\ Len(inbox[c]) < MaxInFlight
    /\ reply[c] = <<>>
    /\ inbox' = [inbox EXCEPT ![c] = Append(@, o)]
    /\ UNCHANGED <<running, addresses, addresses_lock, gpc, chan, stream, alive,
                   link, wpc, reply, quietRounds, removed, lastOp>>
    /\ UNCHANGED notSync

\* the client reads the reply of its get order
ClientRecvReply(c) ==
    /\ reply[c] # <<>>
    /\ reply' = [reply EXCEPT ![c] = <<>>]
    /\ UNCHANGED <<running, addresses, addresses_lock, gpc, chan, stream, inbox,
                   alive, link, wpc, quietRounds, removed, lastOp>>
    /\ UNCHANGED notSync

\* the client closes its socket in an orderly way: the server reads what
\* was written and then end of stream (socket.recv returns b"")
ClientClose(c) ==
    /\ stream[c] = "open"
    /\ stream' = [stream EXCEPT ![c] = "fin"]
    /\ reply' = [reply EXCEPT ![c] = <<>>]
    /\ UNCHANGED <<running, addresses, addresses_lock, gpc, chan, inbox, alive,
                   link, wpc, quietRounds, removed, lastOp>>
    /\ UNCHANGED notSync

\* the stream breaks (reset): the next socket.recv of the server raises
StreamBreak(c) ==
    /\ stream[c] = "open"
    /\ stream' = [stream EXCEPT ![c] = "rst"]
    /\ inbox' = [inbox EXCEPT ![c] = <<>>]
    /\ reply' = [reply EXCEPT ![c] = <<>>]
    /\ UNCHANGED <<running, addresses, addresses_lock, gpc, chan, alive, link,
                   wpc, quietRounds, removed, lastOp>>
    /\ UNCHANGED notSync

(***************************************************************************)
(* __modifyLinker: the worker that reads the orders of one data connection *)
(***************************************************************************)
\* The body of the second try of __modifyLinker for one decoded order, as a
\* function of the linker, the worker's `link` and the remote host. An
\* exception raised inside it (the KeyError of unlinkAddress) is caught by
\* its `except Exception`; the statements after the raising call are skipped.
executeOrder(A, lnk, o, h) ==
    IF o.kind = "link"
    THEN IF lnk # None
         THEN LET u == unlinkAddress(A, lnk) IN
              IF u.raised
              THEN [addresses |-> A, lock |-> TRUE, link |-> lnk,
                    unlink |-> "absent", raised |-> TRUE]
              ELSE [addresses |-> linkAddress(u.addresses, lnk, o.tag),
                    lock |-> FALSE, link |-> lnk,
                    unlink |-> "present", raised |-> FALSE]
         ELSE [addresses |-> linkAddress(A, <<h, o.port>>, o.tag),
               lock |-> FALSE, link |-> <<h, o.port>>,
               unlink |-> "no", raised |-> FALSE]
    ELSE IF o.kind = "unlink" /\ lnk # None /\ lnk = <<h, o.port>>
    THEN LET u == unlinkAddress(A, lnk) IN
         IF u.raised
         THEN [addresses |-> A, lock |-> TRUE, link |-> lnk,
               unlink |-> "absent", raised |-> TRUE]
         ELSE [addresses |-> u.addresses, lock |-> FALSE, link |-> None,
               unlink |-> "present", raised |-> FALSE]
    ELSE [addresses |-> A, lock |-> FALSE, link |-> lnk,
          unlink |-> "no", raised |-> FALSE]

\* every frame in flight on the gossip streams was sent before the order
\* (or the teardown) that now changes the linker
Stale(ch) == [s \in Servers |-> [i \in 1..Len(ch[s]) |-> [ch[s][i] EXCEPT !.fresh = FALSE]]]

\* connection.recv() returns an order frame; the order is decoded and
\* executed. A get order is answered with connection.send(): on an open
\* stream the reply is delivered; when the client is gone the write is
\* either buffered or fails, and a failed send closes the connection, which
\* ends the loop.
RecvOrder(c, sendFails) ==
    LET s == connServer(c)
        o == Head(inbox[c])
        r == executeOrder(addresses[s], link[c], o, connHost(c))
        gone == stream[c] # "open"
    IN
    /\ wpc[c] = "recv" /\ alive[c] /\ running[s]
    /\ inbox[c] # <<>>
    /\ ~addresses_lock[s]
    /\ sendFails => (o.kind = "get" /\ gone)
    /\ inbox' = [inbox EXCEPT ![c] = Tail(@)]
    /\ addresses' = [addresses EXCEPT ![s] = r.addresses]
    /\ addresses_lock' = [addresses_lock EXCEPT ![s] = r.lock]
    /\ link' = [link EXCEPT ![c] = r.link]
    /\ reply' = [reply EXCEPT ![c] =
                    IF o.kind = "get" /\ ~gone
                    THEN <<getValues(addresses[s], {o.tag})>> ELSE @]
    /\ alive' = [alive EXCEPT ![c] = ~sendFails]
    /\ wpc' = [wpc EXCEPT ![c] = IF sendFails THEN "done" ELSE "recv"]
    /\ quietRounds' = [t \in Servers |-> 0]
    /\ chan' = Stale(chan)
    /\ removed' = IF o.kind = "unlink" /\ r.unlink = "present" THEN {link[c]} ELSE {}
    /\ UNCHANGED <<running, gpc, stream, lastOp>>
    /\ UNCHANGED notSync

\* connection.recv() raises (the stream broke): __recv_nbytes closes the
\* connection, and the handler unlinks the owned entry and breaks. The
\* KeyError of unlinkAddress is raised inside the handler: it ends the
\* worker's thread.
RecvRaise(c) ==
    LET s == connServer(c)
        u == unlinkAddress(addresses[s], link[c])
    IN
    /\ wpc[c] = "recv" /\ alive[c] /\ running[s]
    /\ stream[c] = "rst"
    /\ link[c] # None => ~addresses_lock[s]
    /\ alive' = [alive EXCEPT ![c] = FALSE]
    /\ IF link[c] # None
       THEN /\ addresses' = [addresses EXCEPT ![s] = u.addresses]
            /\ addresses_lock' = [addresses_lock EXCEPT ![s] = u.lock]
            /\ wpc' = [wpc EXCEPT ![c] = IF u.raised THEN "raised" ELSE "done"]
            /\ removed' = IF u.raised THEN removed ELSE removed \cup {link[c]}
       ELSE /\ wpc' = [wpc EXCEPT ![c] = "done"]
            /\ UNCHANGED <<addresses, addresses_lock, removed>>
    /\ quietRounds' = [t \in Servers |-> 0]
    /\ chan' = Stale(chan)
    /\ UNCHANGED <<running, gpc, stream, inbox, link, reply, lastOp>>
    /\ UNCHANGED notSync

\* connection.recv() at end of stream: socket.recv returns b"" without
\* raising, data stays shorter than the 4 bytes asked for, and the loop
\* `while len(data) < number` of __recv_nbytes runs again: nothing changes.
RecvSpin(c) ==
    /\ wpc[c] = "recv" /\ alive[c] /\ running[connServer(c)]
    /\ stream[c] = "fin"
    /\ inbox[c] = <<>>
    /\ UNCHANGED vars

(***************************************************************************)
(* __synchroniseLinker: the gossip loop of one server on the stream to its *)
(* peer server                                                             *)
(***************************************************************************)
\* a synchronisation connection between the two servers is established and
\* each end starts its __synchroniseLinker loop
GossipConnect ==
    /\ \A s \in Servers : running[s] /\ gpc[s] = "off"
    /\ gpc' = [s \in Servers |-> "send"]
    /\ UNCHANGED <<running, addresses, addresses_lock, chan, stream, inbox,
                   alive, link, wpc, reply, quietRounds, removed, lastOp>>
    /\ UNCHANGED notSync

\* connection.send(self.__addressesLinker.toJSON())
GossipSend(s) ==
    /\ gpc[s] = "send" /\ running[s]
    /\ ~addresses_lock[s]
    /\ chan' = [chan EXCEPT ![s] = Append(@, [json |-> toJSON(addresses[s]), fresh |-> TRUE])]
    /\ gpc' = [gpc EXCEPT ![s] = "recv"]
    /\ UNCHANGED <<running, addresses, addresses_lock, stream, inbox, alive,
                   link, wpc, reply, quietRounds, removed, lastOp>>
    /\ UNCHANGED notSync

\* syncLinker = AddressesLinker.fromJSON(connection.recv());
\* self.__addressesLinker.mergeAddressesLinker(syncLinker); sleep(interval)
GossipRecvMerge(s) ==
    LET m == Head(chan[peerOf(s)]) IN
    /\ gpc[s] = "recv" /\ running[s]
    /\ chan[peerOf(s)] # <<>>
    /\ ~addresses_lock[s]
    /\ addresses' = [addresses EXCEPT ![s] = mergeAddressesLinker(@, fromJSON(m.json))]
    /\ gpc' = [gpc EXCEPT ![s] = "send"]
    \* history: a frame sent before the last change of a linker by an order
    \* or a teardown brings that older state in: the quiet interval starts
    \* again, and the frames in flight predate it
    /\ IF m.fresh
       THEN /\ chan' = [chan EXCEPT ![peerOf(s)] = Tail(@)]
            /\ quietRounds' = [quietRounds EXCEPT ![s] = IF @ < 2 THEN @ + 1 ELSE 2]
       ELSE /\ chan' = Stale([chan EXCEPT ![peerOf(s)] = Tail(@)])
            /\ quietRounds' = [t \in Servers |-> 0]
    /\ UNCHANGED <<running, addresses_lock, stream, inbox, alive, link, wpc,
                   reply, removed, lastOp>>
    /\ UNCHANGED notSync

(***************************************************************************)
(* Specification of the synchronisation service                            *)
(***************************************************************************)
Worker(c) ==
    \/ \E sendFails \in BOOLEAN : RecvOrder(c, sendFails)
    \/ RecvRaise(c)
    \/ RecvSpin(c)

Gossip(s) ==
    \/ GossipSend(s)
    \/ GossipRecvMerge(s)

Client(c) ==
    \/ ClientConnect(c)
    \/ \E o \in Orders : ClientSendOrder(c, o)
    \/ ClientRecvReply(c)
    \/ ClientClose(c)
    \/ StreamBreak(c)

\* one synchronisation server and the data connections of its clients
DataNext ==
    \/ Start("s1")
    \/ \E c \in Conns : Client(c)
    \/ \E c \in Conns : Worker(c)

\* two synchronisation servers gossiping, and one client of the first
GossipNext ==
    \/ \E s \in Servers : Start(s)
    \/ Client("c1")
    \/ Worker("c1")
    \/ GossipConnect
    \/ \E s \in Servers : Gossip(s)

(***************************************************************************)
(* The AddressesLinker called through its interface: any thread calls      *)
(* linkAddress, unlinkAddress or mergeAddressesLinker on a linker. A call  *)
(* on a linker whose lock is held waits for it.                            *)
(***************************************************************************)
CallLinkAddress(s, a, v) ==
    /\ ~addresses_lock[s]
    /\ addresses' = [addresses EXCEPT ![s] = linkAddress(@, a, v)]
    /\ lastOp' = [op |-> "linkAddress", target |-> s, addr |-> a,
                  present |-> addresses[s][a] # NoTag,
                  before |-> addresses[s], raised |-> FALSE]
    /\ UNCHANGED <<running, addresses_lock, gpc, chan, stream, inbox, alive,
                   link, wpc, reply, quietRounds, removed>>
    /\ UNCHANGED notSync

CallUnlinkAddress(s, a) ==
    LET u == unlinkAddress(addresses[s], a) IN
    /\ ~addresses_lock[s]
    /\ addresses' = [addresses EXCEPT ![s] = u.addresses]
    /\ addresses_lock' = [addresses_lock EXCEPT ![s] = u.lock]
    /\ lastOp' = [op |-> "unlinkAddress", target |-> s, addr |-> a,
                  present |-> addresses[s][a] # NoTag,
                  before |-> addresses[s], raised |-> u.raised]
    /\ UNCHANGED <<running, gpc, chan, stream, inbox, alive, link, wpc, reply,
                   quietRounds, removed>>
    /\ UNCHANGED notSync

\* the argument is the other linker; its `addresses` property takes a copy
\* under that linker's lock
CallMergeAddressesLinker(s) ==
    /\ ~addresses_lock[s]
    /\ ~addresses_lock[peerOf(s)]
    /\ addresses' = [addresses EXCEPT ![s] = mergeAddressesLinker(@, addresses[peerOf(s)])]
    /\ lastOp' = [op |-> "mergeAddressesLinker", target |-> s, addr |-> None,
                  present |-> FALSE, before |-> addresses[s], raised |-> FALSE]
    /\ UNCHANGED <<running, addresses_lock, gpc, chan, stream, inbox, alive,
                   link, wpc, reply, quietRounds, removed>>
    /\ UNCHANGED notSync

LinkerNext ==
    \/ \E s \in Servers, a \in Address, v \in Tags : CallLinkAddress(s, a, v)
    \/ \E s \in Servers, a \in Address : CallUnlinkAddress(s, a)
    \/ \E s \in Servers : CallMergeAddressesLinker(s)

(***************************************************************************)
(* Threads on one AddressesLinker (the linker of s1). Thread T1 runs       *)
(* linkAddress(a, t1); linkAddress(a, t2); thread T2 calls linkAddress,    *)
(* unlinkAddress and mergeAddressesLinker on the other address. A method   *)
(* is three steps: acquire the lock, the statement under the lock, release.*)
(***************************************************************************)
Threads == {"T1", "T2"}
TheAddress == <<"h1", 1>>
OtherAddress == <<"h1", 2>>
T1Program ==
    <<[op |-> "linkAddress", addr |-> TheAddress, tag |-> "t1"],
      [op |-> "linkAddress", addr |-> TheAddress, tag |-> "t2"]>>
\* what T2 calls: every call on the other address; a merged linker holds at
\* most the other address
T2Calls ==
    [op : {"linkAddress", "mergeAddressesLinker"}, addr : {OtherAddress}, tag : Tags]
    \cup [op : {"unlinkAddress"}, addr : {OtherAddress}, tag : {NoTag}]
NoCall == [op |-> "none", addr |-> OtherAddress, tag |-> NoTag]

ThreadInit ==
    /\ tpc = [t \in Threads |-> "idle"]
    /\ tcall = [t \in Threads |-> NoCall]
    /\ progress = 0
    /\ interleaved = FALSE

\* a thread calls a method: the parameter checks pass
ThreadCall(t, c) ==
    /\ tpc[t] = "idle"
    /\ IF t = "T1"
       THEN progress < Len(T1Program) /\ c = T1Program[progress + 1]
       ELSE c \in T2Calls
    /\ tpc' = [tpc EXCEPT ![t] = "acquire"]
    /\ tcall' = [tcall EXCEPT ![t] = c]
    /\ UNCHANGED <<addresses, addresses_lock, progress, interleaved>>
    /\ UNCHANGED notLinker

\* self.__addresses_lock.acquire()
ThreadAcquire(t) ==
    /\ tpc[t] = "acquire"
    /\ ~addresses_lock["s1"]
    /\ addresses_lock' = [addresses_lock EXCEPT !["s1"] = TRUE]
    /\ tpc' = [tpc EXCEPT ![t] = "body"]
    /\ UNCHANGED <<addresses, tcall, progress, interleaved>>
    /\ UNCHANGED notLinker

\* the statement under the lock; the KeyError of pop ends the call with the
\* lock held
ThreadBody(t) ==
    LET c == tcall[t]
        A == addresses["s1"]
        u == unlinkAddress(A, c.addr)
    IN
    /\ tpc[t] = "body"
    /\ addresses' = [addresses EXCEPT !["s1"] =
          CASE c.op = "linkAddress" -> linkAddress(A, c.addr, c.tag)
            [] c.op = "unlinkAddress" -> u.addresses
            [] c.op = "mergeAddressesLinker" ->
                  mergeAddressesLinker(A, linkAddress(EmptyLinker, c.addr, c.tag))]
    /\ tpc' = [tpc EXCEPT ![t] =
                  IF c.op = "unlinkAddress" /\ u.raised THEN "idle" ELSE "release"]
    /\ tcall' = [tcall EXCEPT ![t] =
                    IF c.op = "unlinkAddress" /\ u.raised THEN NoCall ELSE @]
    /\ interleaved' = (interleaved \/ (t = "T2" /\ progress = 1))
    /\ UNCHANGED <<addresses_lock, progress>>
    /\ UNCHANGED notLinker

\* self.__addresses_lock.release(); the method returns
ThreadRelease(t) ==
    /\ tpc[t] = "release"
    /\ addresses_lock' = [addresses_lock EXCEPT !["s1"] = FALSE]
    /\ tpc' = [tpc EXCEPT ![t] = "idle"]
    /\ tcall' = [tcall EXCEPT ![t] = NoCall]
    /\ progress' = IF t = "T1" THEN progress + 1 ELSE progress
    /\ UNCHANGED <<addresses, interleaved>>
    /\ UNCHANGED notLinker

ThreadsNext ==
    \/ \E t \in Threads, c \in T2Calls \cup {T1Program[1], T1Program[2]} : ThreadCall(t, c)
    \/ \E t \in Threads : ThreadAcquire(t)
    \/ \E t \in Threads : ThreadBody(t)
    \/ \E t \in Threads : ThreadRelease(t)

(***************************************************************************)
(* Connection: length-prefixed frames on a TCP stream, one Connection on   *)
(* each end                                                                *)
(***************************************************************************)
Ends == {"A", "B"}
other(e) == IF e = "A" THEN "B" ELSE "A"
Payloads == {<<>>, <<1>>, <<0, 0, 0, 0, 1>>}
HEADER == 4

\* struct.pack(">I", n) and struct.unpack(">I", b)[0]
pack(n) == <<(n \div 16777216) % 256, (n \div 65536) % 256, (n \div 256) % 256, n % 256>>
unpack(b) == ((b[1] * 256 + b[2]) * 256 + b[3]) * 256 + b[4]

\* a __recv_nbytes that stops as soon as it holds 4 bytes
recvStopsAtHeader(data, number) == Len(data) >= number \/ Len(data) >= HEADER

\* __recv_nbytes, line 132: the loop `while len(data) < number` is over
recvComplete(data, number) == Len(data) >= number

NoCret == [call |-> "none", end |-> "-", dead |-> FALSE, raised |-> FALSE, value |-> <<>>]

\* Connection(socket) on both ends of a connected stream
ConnInit ==
    /\ calive = [e \in Ends |-> TRUE]
    /\ broken = FALSE
    /\ wire = [e \in Ends |-> <<>>]
    /\ rpc = [e \in Ends |-> "idle"]
    /\ rdata = [e \in Ends |-> <<>>]
    /\ rnum = [e \in Ends |-> 0]
    /\ sentLog = [e \in Ends |-> <<>>]
    /\ recvLog = [e \in Ends |-> <<>>]
    /\ chunked = FALSE
    /\ cret = NoCret

\* Connection.send(packet). On a Connection that is not alive nothing is
\* written and the call returns. sendall raises on a broken stream, and may
\* raise when the other end has closed: the Connection closes itself and
\* raises ConnectionAbortedError.
ConnSend(e, packet, fails) ==
    /\ rpc[e] = "idle"
    /\ Len(sentLog["A"]) + Len(sentLog["B"]) < MaxFrames
    /\ fails => (calive[e] /\ (broken \/ ~calive[other(e)]))
    /\ (calive[e] /\ broken) => fails
    /\ IF ~calive[e]
       THEN /\ cret' = [NoCret EXCEPT !.call = "send", !.end = e, !.dead = TRUE]
            /\ UNCHANGED <<calive, wire, sentLog>>
       ELSE IF fails
       THEN /\ calive' = [calive EXCEPT ![e] = FALSE]
            /\ cret' = [NoCret EXCEPT !.call = "send", !.end = e, !.raised = TRUE]
            /\ UNCHANGED <<wire, sentLog>>
       ELSE /\ wire' = [wire EXCEPT ![e] =
                           IF calive[other(e)] THEN @ \o pack(Len(packet)) \o packet ELSE @]
            /\ sentLog' = [sentLog EXCEPT ![e] = Append(@, packet)]
            /\ cret' = [NoCret EXCEPT !.call = "send", !.end = e]
            /\ UNCHANGED calive
    /\ UNCHANGED <<broken, rpc, rdata, rnum, recvLog, chunked>>
    /\ UNCHANGED notConn

\* Connection.recv() is called: on a Connection that is not alive it
\* returns b""; otherwise it starts __recv_nbytes(4)
ConnRecvCall(e) ==
    /\ rpc[e] = "idle"
    /\ IF ~calive[e]
       THEN /\ cret' = [NoCret EXCEPT !.call = "recv", !.end = e, !.dead = TRUE]
            /\ UNCHANGED <<rpc, rdata, rnum>>
       ELSE /\ rpc' = [rpc EXCEPT ![e] = "header"]
            /\ rdata' = [rdata EXCEPT ![e] = <<>>]
            /\ rnum' = [rnum EXCEPT ![e] = HEADER]
            /\ cret' = NoCret
    /\ UNCHANGED <<calive, broken, wire, sentLog, recvLog, chunked>>
    /\ UNCHANGED notConn

\* __recv_nbytes: socket.recv(number - len(data)) returns n of the bytes
\* that have arrived, at least one
ConnRecvChunk(e, n) ==
    /\ rpc[e] \in {"header", "payload"}
    /\ ~recvComplete(rdata[e], rnum[e])
    /\ ~broken
    /\ n >= 1 /\ n <= rnum[e] - Len(rdata[e]) /\ n <= Len(wire[other(e)])
    /\ rdata' = [rdata EXCEPT ![e] = @ \o SubSeq(wire[other(e)], 1, n)]
    /\ wire' = [wire EXCEPT ![other(e)] = SubSeq(@, n + 1, Len(@))]
    /\ chunked' = (chunked \/ n < rnum[e] - Len(rdata[e]))
    /\ UNCHANGED <<calive, broken, rpc, rnum, sentLog, recvLog, cret>>
    /\ UNCHANGED notConn

\* __recv_nbytes returns its `number` bytes: after the header recv() asks
\* for the payload, after the payload it returns it
ConnRecvReturn(e) ==
    /\ rpc[e] \in {"header", "payload"}
    /\ recvComplete(rdata[e], rnum[e])
    /\ IF rpc[e] = "header"
       THEN /\ rpc' = [rpc EXCEPT ![e] = "payload"]
            /\ rnum' = [rnum EXCEPT ![e] = unpack(rdata[e])]
            /\ rdata' = [rdata EXCEPT ![e] = <<>>]
            /\ UNCHANGED <<recvLog, cret>>
       ELSE /\ rpc' = [rpc EXCEPT ![e] = "idle"]
            /\ recvLog' = [recvLog EXCEPT ![e] = Append(@, rdata[e])]
            /\ cret' = [NoCret EXCEPT !.call = "recv", !.end = e, !.value = rdata[e]]
            /\ rdata' = [rdata EXCEPT ![e] = <<>>]
            /\ rnum' = [rnum EXCEPT ![e] = 0]
    /\ UNCHANGED <<calive, broken, wire, sentLog, chunked>>
    /\ UNCHANGED notConn

\* __recv_nbytes: socket.recv raises on the broken stream; the Connection
\* closes itself and raises ConnectionAbortedError
ConnRecvRaise(e) ==
    /\ rpc[e] \in {"header", "payload"}
    /\ ~recvComplete(rdata[e], rnum[e])
    /\ broken
    /\ calive' = [calive EXCEPT ![e] = FALSE]
    /\ rpc' = [rpc EXCEPT ![e] = "idle"]
    /\ rdata' = [rdata EXCEPT ![e] = <<>>]
    /\ rnum' = [rnum EXCEPT ![e] = 0]
    /\ cret' = [NoCret EXCEPT !.call = "recv", !.end = e, !.raised = TRUE]
    /\ UNCHANGED <<broken, wire, sentLog, recvLog, chunked>>
    /\ UNCHANGED notConn

\* __recv_nbytes: the other end has closed and every byte it wrote has been
\* read: socket.recv returns b"", data does not grow, the loop goes round
ConnRecvEmpty(e) ==
    /\ rpc[e] \in {"header", "payload"}
    /\ ~recvComplete(rdata[e], rnum[e])
    /\ ~broken
    /\ ~calive[other(e)]
    /\ wire[other(e)] = <<>>
    /\ UNCHANGED vars

\* Connection.close()
ConnClose(e) ==
    /\ rpc[e] = "idle"
    /\ calive' = [calive EXCEPT ![e] = FALSE]
    /\ cret' = [NoCret EXCEPT !.call = "close", !.end = e, !.dead = ~calive[e]]
    /\ UNCHANGED <<broken, wire, rpc, rdata, rnum, sentLog, recvLog, chunked>>
    /\ UNCHANGED notConn

\* the stream breaks: the bytes in flight are lost
ConnBreak ==
    /\ ~broken
    /\ broken' = TRUE
    /\ wire' = [e \in Ends |-> <<>>]
    /\ cret' = NoCret
    /\ UNCHANGED <<calive, rpc, rdata, rnum, sentLog, recvLog, chunked>>
    /\ UNCHANGED notConn

Receiver(e) ==
    \/ \E n \in 1..(HEADER + 5) : ConnRecvChunk(e, n)
    \/ ConnRecvReturn(e)
    \/ ConnRecvRaise(e)
    \/ ConnRecvEmpty(e)

ConnNext ==
    \/ \E e \in Ends, packet \in Payloads, fails \in BOOLEAN : ConnSend(e, packet, fails)
    \/ \E e \in Ends : ConnRecvCall(e)
    \/ \E e \in Ends : Receiver(e)
    \/ \E e \in Ends : ConnClose(e)
    \/ ConnBreak

(***************************************************************************)
(* Mesh-topology radios (radio.Radio). Every radio turns on and off and    *)
(* reconfigures; the radio Sender also refreshes its connections from the  *)
(* registry and sends; the others receive what it sends.                   *)
(***************************************************************************)
MeshRadios == {"A", "B", "C"}
Sender == "A"
MeshPeers == MeshRadios \ {Sender}
MeshChannels == {7, 8}
\* the radios that call config() in the model
Reconfigured == {Sender, "B"}
MeshLength == 32
MeshQueueSize == 3
\* messages: one that fits the length and one of 33 bytes
MeshMessages == {<<1>>, [i \in 1..(MeshLength + 1) |-> 0]}

\* f'channel{channel}group{group}'
tagOf(channel, group) == <<"channel", channel, "group", group>>

\* the registry holds no tag for the radio
Unlinked == <<>>

NoScall == [snap |-> {}, sent |-> {}, failed |-> {},
            count |-> [q \in MeshPeers |-> 0],
            off |-> FALSE, raised |-> FALSE, done |-> FALSE]

\* Radio(...): off, config() with the defaults, nothing connected
MeshInit ==
    /\ mon = [r \in MeshRadios |-> FALSE]
    /\ mtag = [r \in MeshRadios |-> tagOf(7, 0)]
    /\ mqueue = [r \in MeshRadios |-> <<>>]
    /\ registry = [r \in MeshRadios |-> Unlinked]
    /\ maddr = {}
    /\ mclients = {}
    /\ mlink = [q \in MeshPeers |-> "none"]
    /\ mwire = [q \in MeshPeers |-> <<>>]
    /\ mlock = FALSE
    /\ spc = "idle"
    /\ stodo = {}
    /\ scall = NoScall
    /\ nsends = 0
    /\ mpc = "get"

\* Radio.on: linkPort(tag, port) registers the radio
MeshOn(r) ==
    /\ ~mon[r]
    /\ mon' = [mon EXCEPT ![r] = TRUE]
    /\ registry' = [registry EXCEPT ![r] = mtag[r]]
    /\ UNCHANGED <<mtag, mqueue, maddr, mclients, mlink, mwire, mlock, spc,
                   stodo, scall, nsends, mpc>>
    /\ UNCHANGED notMesh

\* Radio.off: unlinkPort(port); the connections it made stay in the map
MeshOff(r) ==
    /\ mon[r]
    /\ mon' = [mon EXCEPT ![r] = FALSE]
    /\ registry' = [registry EXCEPT ![r] = Unlinked]
    /\ UNCHANGED <<mtag, mqueue, maddr, mclients, mlink, mwire, mlock, spc,
                   stodo, scall, nsends, mpc>>
    /\ UNCHANGED notMesh

\* Radio.config(channel=c): a new mailbox, the new tag, and when the radio
\* is on unlinkPort(port) and linkPort(tag, port)
MeshConfig(r, c) ==
    /\ mtag' = [mtag EXCEPT ![r] = tagOf(c, 0)]
    /\ mqueue' = [mqueue EXCEPT ![r] = <<>>]
    /\ registry' = [registry EXCEPT ![r] = IF mon[r] THEN tagOf(c, 0) ELSE @]
    /\ UNCHANGED <<mon, maddr, mclients, mlink, mwire, mlock, spc, stodo,
                   scall, nsends, mpc>>
    /\ UNCHANGED notMesh

\* __synchroniseAddresses: getAddresses(tag) and the copy into __addr
MeshGetAddresses ==
    /\ mon[Sender]
    /\ mpc = "get"
    /\ mpc' = "refresh"
    /\ maddr' = {r \in MeshRadios : registry[r] = mtag[Sender]}
    /\ UNCHANGED <<mon, mtag, mqueue, registry, mclients, mlink, mwire, mlock,
                   spc, stodo, scall, nsends>>
    /\ UNCHANGED notMesh

\* __refresh_connected_clients: under both locks, connect to every address
\* of __addr that is neither connected nor the radio itself; an address that
\* does not answer leaves __addr
MeshRefreshClients ==
    LET new == {q \in maddr : q \notin mclients /\ q # Sender}
        ok == {q \in new : mon[q]}
    IN
    /\ mpc = "refresh"
    /\ mpc' = "get"
    /\ ~mlock
    /\ mclients' = mclients \cup ok
    /\ maddr' = maddr \ (new \ ok)
    /\ mlink' = [q \in MeshPeers |-> IF q \in ok THEN "up" ELSE mlink[q]]
    /\ mwire' = [q \in MeshPeers |-> IF q \in ok THEN <<>> ELSE mwire[q]]
    /\ UNCHANGED <<mon, mtag, mqueue, registry, mlock, spc, stodo, scall, nsends>>
    /\ UNCHANGED notMesh

\* the connection to a peer is lost: the peer closed it or is gone
MeshLinkDown(q) ==
    /\ mlink[q] = "up"
    /\ mlink' = [mlink EXCEPT ![q] = "down"]
    /\ mwire' = [mwire EXCEPT ![q] = <<>>]
    /\ UNCHANGED <<mon, mtag, mqueue, registry, maddr, mclients, mlock, spc,
                   stodo, scall, nsends, mpc>>
    /\ UNCHANGED notMesh

\* a send_bytes that gives up at the first peer whose send fails
remainingAfterAbort(todo, q, failed) == IF failed THEN {} ELSE todo \ {q}

\* send_bytes, lines 243-249: the keys still to visit after the one of q
remaining(todo, q, failed) == todo \ {q}

\* Radio.send_bytes(message) up to the lock: nothing when off, ValueError
\* when too long, else the lock and the copy of the map
SendBytesCall(message) ==
    /\ spc = "idle"
    /\ nsends < MaxMeshSends
    /\ nsends' = nsends + 1
    /\ IF ~mon[Sender]
       THEN /\ scall' = [NoScall EXCEPT !.off = TRUE, !.done = TRUE]
            /\ UNCHANGED <<mlock, spc, stodo>>
       ELSE IF Len(message) > MeshLength
       THEN /\ scall' = [NoScall EXCEPT !.raised = TRUE, !.done = TRUE]
            /\ UNCHANGED <<mlock, spc, stodo>>
       ELSE /\ ~mlock
            /\ mlock' = TRUE
            /\ spc' = "loop"
            /\ stodo' = mclients
            /\ scall' = [NoScall EXCEPT !.snap = mclients]
    /\ UNCHANGED <<mon, mtag, mqueue, registry, maddr, mclients, mlink, mwire, mpc>>
    /\ UNCHANGED notMesh

\* send_bytes: self.__connected_clients[addr].send(message); when it raises
\* (only on a lost connection) the key is popped. The message written
\* carries whether the two tags were equal when it was sent.
SendBytesOne(q, fails) ==
    /\ spc = "loop"
    /\ q \in stodo
    /\ fails => mlink[q] = "down"
    /\ stodo' = remaining(stodo, q, fails)
    /\ IF fails
       THEN /\ mclients' = mclients \ {q}
            /\ mlink' = [mlink EXCEPT ![q] = "none"]
            /\ scall' = [scall EXCEPT !.failed = @ \cup {q}, !.count[q] = @ + 1]
            /\ UNCHANGED mwire
       ELSE /\ mwire' = [mwire EXCEPT ![q] =
                            IF mlink[q] = "up"
                            THEN Append(@, [same |-> mtag[Sender] = mtag[q]])
                            ELSE @]
            /\ scall' = [scall EXCEPT !.sent = @ \cup {q}, !.count[q] = @ + 1]
            /\ UNCHANGED <<mclients, mlink>>
    /\ UNCHANGED <<mon, mtag, mqueue, registry, maddr, mlock, spc, nsends, mpc>>
    /\ UNCHANGED notMesh

\* send_bytes: the loop is over; the lock is released
SendBytesReturn ==
    /\ spc = "loop"
    /\ stodo = {}
    /\ mlock' = FALSE
    /\ spc' = "idle"
    /\ scall' = [scall EXCEPT !.done = TRUE]
    /\ UNCHANGED <<mon, mtag, mqueue, registry, maddr, mclients, mlink, mwire,
                   stodo, nsends, mpc>>
    /\ UNCHANGED notMesh

\* __receiveData of a peer: recv() returns a message; it is put in the
\* mailbox unless the mailbox is full
MeshReceiveData(q) ==
    /\ mon[q]
    /\ mwire[q] # <<>>
    /\ mwire' = [mwire EXCEPT ![q] = Tail(@)]
    /\ mqueue' = [mqueue EXCEPT ![q] =
                     IF Len(@) >= MeshQueueSize THEN @ ELSE Append(@, Head(mwire[q]))]
    /\ UNCHANGED <<mon, mtag, registry, maddr, mclients, mlink, mlock, spc,
                   stodo, scall, nsends, mpc>>
    /\ UNCHANGED notMesh

MeshNext ==
    \/ \E r \in MeshRadios : MeshOn(r)
    \/ \E r \in MeshRadios : MeshOff(r)
    \/ \E r \in Reconfigured, c \in MeshChannels : MeshConfig(r, c)
    \/ MeshGetAddresses
    \/ MeshRefreshClients
    \/ \E q \in MeshPeers : MeshLinkDown(q)
    \/ \E message \in MeshMessages : SendBytesCall(message)
    \/ \E q \in MeshPeers, fails \in BOOLEAN : SendBytesOne(q, fails)
    \/ SendBytesReturn
    \/ \E q \in MeshPeers : MeshReceiveData(q)

(***************************************************************************)
(* SynchronisationClient: one client object (debug off), the stream to the *)
(* data port of its server, and the orders the server reads from it        *)
(***************************************************************************)
ClientOrders ==
    [kind : {"link"}, tag : {"t1"}, port : {1}]
    \cup [kind : {"unlink"}, tag : {NoTag}, port : {1}]
    \cup [kind : {"get"}, tag : {"t1"}, port : {0}]

NoClientRet == [call |-> "none", lost |-> FALSE, wrote |-> FALSE,
                raised |-> FALSE, connected |-> FALSE]

ClientObjInit ==
    /\ dataConnection = "None"
    /\ dataNet = "none"
    /\ served = <<>>
    /\ clientRet = NoClientRet
    /\ clientCalls = 0

\* the property `connected`
connected(dc) == dc = "alive"

\* SynchronisationClient.sendOrder, lines 123-133: the write under the lock.
\* With no Connection the attribute access raises, with a Connection whose
\* send raises the Connection closes itself; both are caught and leave
\* __data_connection None.
sendOrderWrite(dc, fails) ==
    IF dc = "None" THEN [dc |-> "None", wrote |-> FALSE, lost |-> FALSE]
    ELSE IF dc = "alive" /\ fails THEN [dc |-> "None", wrote |-> FALSE, lost |-> TRUE]
    ELSE [dc |-> dc, wrote |-> dc = "alive", lost |-> FALSE]

\* SynchronisationClient.sendOrder, lines 135-154: the read of the reply of
\* a get order; "data" when a reply was read and decoded, "None" otherwise
sendOrderRetrieve(dc, net) ==
    IF ~connected(dc) THEN [dc |-> dc, data |-> "None"]
    ELSE IF net = "up" THEN [dc |-> dc, data |-> "data"]
    ELSE [dc |-> "None", data |-> "None"]

\* SynchronisationClient.connect(addr): disconnect(), then try_connection,
\* which raises ConnectionError when connect_ex fails
ClientObjConnect(ok) ==
    /\ dataConnection' = IF ok THEN "alive" ELSE "None"
    /\ dataNet' = IF ok THEN "up" ELSE "none"
    /\ clientRet' = [NoClientRet EXCEPT !.call = "connect", !.raised = ~ok,
                                        !.connected = ok]
    /\ UNCHANGED <<served, clientCalls>>
    /\ UNCHANGED notClient

\* SynchronisationClient.disconnect
ClientObjDisconnect ==
    /\ connected(dataConnection)
    /\ dataConnection' = "None"
    /\ dataNet' = "none"
    /\ clientRet' = [NoClientRet EXCEPT !.call = "disconnect"]
    /\ UNCHANGED <<served, clientCalls>>
    /\ UNCHANGED notClient

\* the stream to the server breaks
DataNetReset ==
    /\ dataNet = "up"
    /\ dataNet' = "rst"
    /\ UNCHANGED <<dataConnection, served, clientRet, clientCalls>>
    /\ UNCHANGED notClient

\* linkPort, unlinkPort or getAddresses: sendOrder(order) resp.
\* sendOrder(order, True); getAddresses then evaluates `value in data`,
\* which raises TypeError when data is None. A send on a broken stream
\* either raises (fails) or is buffered and lost.
ClientObjCall(o, fails) ==
    LET w == sendOrderWrite(dataConnection, fails)
        r == IF o.kind = "get" THEN sendOrderRetrieve(w.dc, dataNet)
             ELSE [dc |-> w.dc, data |-> "None"]
    IN
    /\ clientCalls < MaxClientCalls
    /\ fails => dataNet = "rst"
    /\ clientCalls' = clientCalls + 1
    /\ dataConnection' = r.dc
    /\ dataNet' = IF r.dc = "None" THEN "none" ELSE dataNet
    /\ served' = IF w.wrote /\ dataNet = "up" THEN Append(served, o) ELSE served
    /\ clientRet' = [call |-> o.kind, lost |-> w.lost, wrote |-> w.wrote,
                     raised |-> o.kind = "get" /\ r.data = "None",
                     connected |-> connected(r.dc)]
    /\ UNCHANGED notClient

ClientObjNext ==
    \/ \E ok \in BOOLEAN : ClientObjConnect(ok)
    \/ ClientObjDisconnect
    \/ DataNetReset
    \/ \E o \in ClientOrders, fails \in BOOLEAN : ClientObjCall(o, fails)

(***************************************************************************)
(* ConnectionServer: the listening socket (with the semantics of Linux:    *)
(* shutdown of a listening socket succeeds and wakes the threads blocked   *)
(* in accept) and the threads that call accept()                           *)
(***************************************************************************)
Accepters == {"a1", "a2", "a3"}
NoSrvRet == [call |-> "none", raised |-> FALSE, before |-> "listening"]

\* ConnectionServer(port): bound and listening
ServerInit ==
    /\ srvAlive = TRUE
    /\ srvSocket = "listening"
    /\ backlog = 0
    /\ apc = [t \in Accepters |-> "idle"]
    /\ srvRet = NoSrvRet
    /\ closeCalls = 0

\* a client connects to the port
ServerConnectIn ==
    /\ srvSocket = "listening"
    /\ backlog < MaxBacklog
    /\ backlog' = backlog + 1
    /\ UNCHANGED <<srvAlive, srvSocket, apc, srvRet, closeCalls>>
    /\ UNCHANGED notServer

\* accept() is called: socket.accept blocks on a listening socket and
\* raises OSError on a closed one
ServerAcceptCall(t) ==
    /\ apc[t] # "blocked"
    /\ apc' = [apc EXCEPT ![t] = IF srvSocket = "listening" THEN "blocked" ELSE "raised"]
    /\ UNCHANGED <<srvAlive, srvSocket, backlog, srvRet, closeCalls>>
    /\ UNCHANGED notServer

\* accept() returns a Connection
ServerAcceptReturn(t) ==
    /\ apc[t] = "blocked"
    /\ srvSocket = "listening"
    /\ backlog > 0
    /\ backlog' = backlog - 1
    /\ apc' = [apc EXCEPT ![t] = "returned"]
    /\ UNCHANGED <<srvAlive, srvSocket, srvRet, closeCalls>>
    /\ UNCHANGED notServer

\* socket.shutdown(SHUT_RDWR), line 46: OSError on a socket already closed
shutdownRaises(sock) == sock = "closed"

\* ConnectionServer.close(): __alive = False, then shutdown, which wakes
\* the blocked accepts (they raise OSError) or raises itself, then close
ServerClose ==
    /\ closeCalls < MaxCloses
    /\ closeCalls' = closeCalls + 1
    /\ srvAlive' = FALSE
    /\ srvRet' = [call |-> "close", raised |-> shutdownRaises(srvSocket),
                  before |-> srvSocket]
    /\ IF shutdownRaises(srvSocket)
       THEN UNCHANGED <<srvSocket, backlog, apc>>
       ELSE /\ srvSocket' = "closed"
            /\ backlog' = 0
            /\ apc' = [t \in Accepters |-> IF apc[t] = "blocked" THEN "raised" ELSE apc[t]]
    /\ UNCHANGED notServer

ServerNext ==
    \/ ServerConnectIn
    \/ \E t \in Accepters : ServerAcceptCall(t)
    \/ \E t \in Accepters : ServerAcceptReturn(t)
    \/ ServerClose

(***************************************************************************)
(* MicrobitIoPeer / MicrobitWebsocketPeer: listen() on the worker that     *)
(* called it, the input it reads, and the threads that add and remove      *)
(* listeners                                                               *)
(***************************************************************************)
Listeners == {"L1", "L2"}
PeerKinds == {"io", "ws"}

\* frames on the input: two valid commands, one with a channel out of
\* range, one with an unknown tag
FrameBase == [command |-> "radio.send_bytes", message |-> <<104>>, group |-> 0,
              channel |-> 7, power |-> 6, address |-> DefaultAddress]
PeerFrames ==
    {FrameBase,
     [FrameBase EXCEPT !.message = <<105>>],
     [FrameBase EXCEPT !.channel = 84],
     [FrameBase EXCEPT !.command = "unknown"]}

NoIter == [size |-> 0, visited |-> {}, yielded |-> 0, mutated |-> FALSE]

\* before any peer is made
PeerInit ==
    /\ pkind = "none"
    /\ pstream = "open"
    /\ pin = <<>>
    /\ pfed = 0
    /\ plisteners = {}
    /\ is_listening = FALSE
    /\ ppc = "idle"
    /\ pcmd = FrameBase
    /\ piter = NoIter
    /\ plog = [l \in Listeners |-> <<>>]
    /\ pseen = <<>>
    /\ pskipped = 0

\* MicrobitIoPeer(...) or MicrobitWebsocketPeer(websocket): no listener, not
\* listening
PeerCreate(kind) ==
    /\ pkind = "none"
    /\ pkind' = kind
    /\ UNCHANGED <<pstream, pin, pfed, plisteners, is_listening, ppc, pcmd,
                   piter, plog, pseen, pskipped>>
    /\ UNCHANGED notPeer

\* the other side sends a frame
PeerFeed(f) ==
    /\ pkind # "none"
    /\ pstream = "open"
    /\ pfed < MaxPeerFrames
    /\ pfed' = pfed + 1
    /\ pin' = Append(pin, f)
    /\ UNCHANGED <<pkind, pstream, plisteners, is_listening, ppc, pcmd, piter,
                   plog, pseen, pskipped>>
    /\ UNCHANGED notPeer

\* the input ends: end of file on the stream, a normal close of the websocket
PeerEof ==
    /\ pkind # "none"
    /\ pstream = "open"
    /\ pstream' = "eof"
    /\ UNCHANGED <<pkind, pin, pfed, plisteners, is_listening, ppc, pcmd, piter,
                   plog, pseen, pskipped>>
    /\ UNCHANGED notPeer

\* the input fails: the file object is closed, the websocket closes with
\* an error
PeerError ==
    /\ pkind # "none"
    /\ pstream = "open"
    /\ pstream' = "error"
    /\ pin' = <<>>
    /\ UNCHANGED <<pkind, pfed, plisteners, is_listening, ppc, pcmd, piter,
                   plog, pseen, pskipped>>
    /\ UNCHANGED notPeer

\* add_listener / remove_listener from another thread; a change of the set
\* while listen() iterates over it is seen by the iterator
AddListener(l) ==
    /\ pkind # "none"
    /\ l \notin plisteners
    /\ plisteners' = plisteners \cup {l}
    /\ piter' = IF ppc = "dispatch" THEN [piter EXCEPT !.mutated = TRUE] ELSE piter
    /\ UNCHANGED <<pkind, pstream, pin, pfed, is_listening, ppc, pcmd, plog,
                   pseen, pskipped>>
    /\ UNCHANGED notPeer

RemoveListener(l) ==
    /\ l \in plisteners
    /\ plisteners' = plisteners \ {l}
    /\ piter' = IF ppc = "dispatch" THEN [piter EXCEPT !.mutated = TRUE] ELSE piter
    /\ UNCHANGED <<pkind, pstream, pin, pfed, is_listening, ppc, pcmd, plog,
                   pseen, pskipped>>
    /\ UNCHANGED notPeer

\* stop()
PeerStop ==
    /\ is_listening
    /\ is_listening' = FALSE
    /\ UNCHANGED <<pkind, pstream, pin, pfed, plisteners, ppc, pcmd, piter,
                   plog, pseen, pskipped>>
    /\ UNCHANGED notPeer

\* listen() is called
ListenCall ==
    /\ pkind # "none"
    /\ ppc = "idle"
    /\ is_listening' = TRUE
    /\ ppc' = "recv"
    /\ UNCHANGED <<pkind, pstream, pin, pfed, plisteners, pcmd, piter, plog,
                   pseen, pskipped>>
    /\ UNCHANGED notPeer

\* a listen() that gives up at the first invalid frame
listenAbortsOnInvalid(kind) == "raised"

\* listen(), `except ValidationError: ... continue`: where the loop goes on
listenAfterInvalid(kind) == "recv"

\* listen(): the loop condition is false
ListenExit ==
    /\ ppc = "recv"
    /\ ~is_listening
    /\ ppc' = "returned"
    /\ UNCHANGED <<pkind, pstream, pin, pfed, plisteners, is_listening, pcmd,
                   piter, plog, pseen, pskipped>>
    /\ UNCHANGED notPeer

\* listen(): a frame is read and validated; a valid one starts the
\* iteration over the listeners, an invalid one is logged and skipped
ListenRead ==
    LET v == validate_json(Head(pin)) IN
    /\ ppc = "recv"
    /\ is_listening
    /\ pin # <<>>
    /\ pin' = Tail(pin)
    /\ IF v.ok
       THEN /\ ppc' = "dispatch"
            /\ pcmd' = v.command
            /\ piter' = [size |-> Cardinality(plisteners), visited |-> {},
                         yielded |-> 0, mutated |-> FALSE]
            /\ pseen' = Append(pseen, [command |-> v.command,
                                      registered |-> plisteners,
                                      skipped |-> pskipped])
            /\ UNCHANGED pskipped
       ELSE /\ ppc' = listenAfterInvalid(pkind)
            /\ pskipped' = pskipped + 1
            /\ UNCHANGED <<pcmd, piter, pseen>>
    /\ UNCHANGED <<pkind, pstream, pfed, plisteners, is_listening, plog>>
    /\ UNCHANGED notPeer

\* listen() of the websocket peer at the end of the input: recv() raises
\* ConnectionClosedOK, listen() stops and returns
ListenClosedOK ==
    /\ ppc = "recv"
    /\ is_listening
    /\ pkind = "ws"
    /\ pin = <<>>
    /\ pstream = "eof"
    /\ is_listening' = FALSE
    /\ ppc' = "returned"
    /\ UNCHANGED <<pkind, pstream, pin, pfed, plisteners, pcmd, piter, plog,
                   pseen, pskipped>>
    /\ UNCHANGED notPeer

\* listen() on a failed input: readline() of a closed file raises, recv()
\* raises ConnectionClosedError; listen() raises CommunicationClosedError
ListenClosedError ==
    /\ ppc = "recv"
    /\ is_listening
    /\ pstream = "error"
    /\ ppc' = "raised"
    /\ UNCHANGED <<pkind, pstream, pin, pfed, plisteners, is_listening, pcmd,
                   piter, plog, pseen, pskipped>>
    /\ UNCHANGED notPeer

\* listen() of the stdio peer at end of file: readline() returns "", which
\* is no valid command, and the loop continues
ListenReadEmpty ==
    /\ ppc = "recv"
    /\ is_listening
    /\ pkind = "io"
    /\ pin = <<>>
    /\ pstream = "eof"
    /\ UNCHANGED vars

\* listen(): the iterator yields a listener and it is called. After a
\* change of the set that left its size the same, the iterator may yield
\* any element of the set, as many times as the set has elements.
ListenerCall(l) ==
    /\ ppc = "dispatch"
    /\ Cardinality(plisteners) = piter.size
    /\ l \in plisteners
    /\ piter.yielded < piter.size
    /\ piter.mutated \/ l \notin piter.visited
    /\ plog' = [plog EXCEPT ![l] = Append(@, pcmd)]
    /\ piter' = [piter EXCEPT !.visited = @ \cup {l}, !.yielded = @ + 1]
    /\ UNCHANGED <<pkind, pstream, pin, pfed, plisteners, is_listening, ppc,
                   pcmd, pseen, pskipped>>
    /\ UNCHANGED notPeer

\* listen(): the iterator is exhausted
ListenerEnd ==
    /\ ppc = "dispatch"
    /\ Cardinality(plisteners) = piter.size
    /\ piter.mutated \/ plisteners \subseteq piter.visited
    /\ ppc' = "recv"
    /\ piter' = NoIter
    /\ UNCHANGED <<pkind, pstream, pin, pfed, plisteners, is_listening, pcmd,
                   plog, pseen, pskipped>>
    /\ UNCHANGED notPeer

\* listen(): the set changed size during the iteration; the iterator
\* raises RuntimeError, which leaves listen()
ListenerRuntimeError ==
    /\ ppc = "dispatch"
    /\ Cardinality(plisteners) # piter.size
    /\ ppc' = "crashed"
    /\ piter' = NoIter
    /\ UNCHANGED <<pkind, pstream, pin, pfed, plisteners, is_listening, pcmd,
                   plog, pseen, pskipped>>
    /\ UNCHANGED notPeer

ListenLoop ==
    \/ ListenExit
    \/ ListenRead
    \/ ListenClosedOK
    \/ ListenClosedError
    \/ ListenReadEmpty
    \/ \E l \in Listeners : ListenerCall(l)
    \/ ListenerEnd
    \/ ListenerRuntimeError

PeerNext ==
    \/ \E kind \in PeerKinds : PeerCreate(kind)
    \/ \E f \in PeerFrames : PeerFeed(f)
    \/ PeerEof
    \/ PeerError
    \/ \E l \in Listeners : AddListener(l)
    \/ \E l \in Listeners : RemoveListener(l)
    \/ PeerStop
    \/ ListenCall
    \/ ListenLoop

(***************************************************************************)
(* Radio.receive_bytes_into(buffer)                                        *)
(***************************************************************************)
BufferMessages == {<<>>, <<1>>, <<1, 2>>, <<1, 2, 3>>}
Buffers == {<<>>, <<9>>, <<9, 8>>}
Min(a, b) == IF a < b THEN a ELSE b

NoBret == [call |-> "none", none |-> TRUE, value |-> 0, message |-> <<>>,
           before |-> <<>>, pendingBefore |-> <<>>]

BufferInit ==
    /\ bradio = [peer |-> FALSE, items |-> <<>>]
    /\ rbuffer = <<>>
    /\ bret = NoBret

\* bytearray slice assignment buffer[0:k] = message: the first k bytes are
\* replaced by the whole of message
sliceAssign(buf, k, message) == message \o SubSeq(buf, k + 1, Len(buf))

\* Radio.on / Radio.off
BufferOnOff ==
    /\ bradio' = [bradio EXCEPT !.peer = ~@]
    /\ bret' = NoBret
    /\ UNCHANGED rbuffer
    /\ UNCHANGED notBuffer

\* the listener puts a message in the mailbox
BufferListen(message) ==
    /\ bradio.peer
    /\ Len(bradio.items) < MaxMailbox
    /\ bradio' = [bradio EXCEPT !.items = Append(@, message)]
    /\ bret' = NoBret
    /\ UNCHANGED rbuffer
    /\ UNCHANGED notBuffer

\* the caller makes a bytearray
BufferNew(buf) ==
    /\ rbuffer # buf
    /\ rbuffer' = buf
    /\ bret' = NoBret
    /\ UNCHANGED bradio
    /\ UNCHANGED notBuffer

\* Radio.receive_bytes_into(buffer)
ReceiveBytesInto ==
    /\ IF bradio.peer /\ bradio.items # <<>>
       THEN LET message == Head(bradio.items) IN
            /\ bradio' = [bradio EXCEPT !.items = Tail(@)]
            /\ rbuffer' = sliceAssign(rbuffer, Min(Len(message), Len(rbuffer)), message)
            /\ bret' = [call |-> "receive_bytes_into", none |-> FALSE,
                        value |-> Len(message), message |-> message,
                        before |-> rbuffer, pendingBefore |-> bradio.items]
       ELSE /\ bret' = [NoBret EXCEPT !.call = "receive_bytes_into",
                                      !.before = rbuffer,
                                      !.pendingBefore = bradio.items]
            /\ UNCHANGED <<bradio, rbuffer>>
    /\ UNCHANGED notBuffer

BufferNext ==
    \/ BufferOnOff
    \/ \E message \in BufferMessages : BufferListen(message)
    \/ \E buf \in Buffers : BufferNew(buf)
    \/ ReceiveBytesInto

(***************************************************************************)
(* send_command (model_dump_json) followed by validate_json                *)
(***************************************************************************)
\* bytes of the messages: ASCII, the two bytes of U+00E9, and 255
CodecBytes == {104, 195, 169, 255}
CodecMessages ==
    {<<>>} \cup {<<a>> : a \in CodecBytes} \cup {<<a, b>> : a, b \in CodecBytes}

\* the valid radio.send_bytes commands of the model
CodecCommands ==
    [command : {"radio.send_bytes"}, message : CodecMessages,
     group : {MIN_GROUP, MAX_GROUP}, channel : {MIN_CHANNEL, MAX_CHANNEL},
     power : {MIN_POWER, MAX_POWER}, address : {DefaultAddress}]

CodecInit ==
    /\ ccmd = FrameBase
    /\ cstage = "none"
    /\ cjson = FrameBase
    /\ cdecoded = FrameBase

\* RadioSendBytesCommand(...): a valid command is made
CodecChoose(c) ==
    /\ cstage = "none"
    /\ validate_json(c).ok
    /\ ccmd' = c
    /\ cstage' = "chosen"
    /\ UNCHANGED <<cjson, cdecoded>>
    /\ UNCHANGED notCodec

\* send_command: request = command.model_dump_json(), written on the
\* websocket unless model_dump_json raises
CodecSendCommand ==
    LET d == model_dump_json(ccmd) IN
    /\ cstage = "chosen"
    /\ cstage' = IF d.ok THEN "encoded" ELSE "raised"
    /\ cjson' = IF d.ok THEN d.json ELSE cjson
    /\ UNCHANGED <<ccmd, cdecoded>>
    /\ UNCHANGED notCodec

\* listen(): MicrobitCommandAdapter.validate_json(response)
CodecValidate ==
    LET v == validate_json(cjson) IN
    /\ cstage = "encoded"
    /\ cstage' = IF v.ok THEN "decoded" ELSE "invalid"
    /\ cdecoded' = IF v.ok THEN v.command ELSE cdecoded
    /\ UNCHANGED <<ccmd, cjson>>
    /\ UNCHANGED notCodec

CodecNext ==
    \/ \E c \in CodecCommands : CodecChoose(c)
    \/ CodecSendCommand
    \/ CodecValidate

(***************************************************************************)
(* Synchronisation servers finding each other: __connectToSyncServer,      *)
(* __acceptSyncConnection and __synchroniseLinker, with a network that     *)
(* does not fail. A connection is named by the server that made it; its    *)
(* ends are "i" (that server's worker) and "a" (the thread started by the  *)
(* other server's accept loop).                                            *)
(***************************************************************************)
Roles == {"W", "H"}
connOf(s, r) == IF r = "W" THEN s ELSE peerOf(s)
endOf(r) == IF r = "W" THEN "i" ELSE "a"
otherEnd(e) == IF e = "i" THEN "a" ELSE "i"

NoGconn == [st |-> "none", alive |-> [e \in {"i", "a"} |-> FALSE],
            closed |-> [e \in {"i", "a"} |-> FALSE],
            unread |-> [e \in {"i", "a"} |-> 0],
            merged |-> {}]

DiscInit ==
    /\ srun = [s \in Servers |-> FALSE]
    /\ connected_servers = [s \in Servers |-> FALSE]
    /\ gpos = [s \in Servers |-> [r \in Roles |-> "none"]]
    /\ inSync = [s \in Servers |-> FALSE]
    /\ gconn = [s \in Servers |-> NoGconn]

\* SynchronisationServer.start: the accept thread and the connect worker
\* of the one target are started
DiscStart(s) ==
    /\ ~srun[s]
    /\ srun' = [srun EXCEPT ![s] = TRUE]
    /\ gpos' = [gpos EXCEPT ![s]["W"] = "check"]
    /\ UNCHANGED <<connected_servers, inSync, gconn>>
    /\ UNCHANGED notDisc

\* __connectToSyncServer, lines 159-162: inSync is read under the lock;
\* when it is true the worker sleeps and comes back here
WorkerCheck(s) ==
    /\ srun[s]
    /\ gpos[s]["W"] = "check"
    /\ inSync' = [inSync EXCEPT ![s] = connected_servers[s]]
    /\ gpos' = [gpos EXCEPT ![s]["W"] = IF connected_servers[s] THEN "check" ELSE "connect"]
    /\ UNCHANGED <<srun, connected_servers, gconn>>
    /\ UNCHANGED notDisc

\* __connectToSyncServer, lines 163-184: create_connection succeeds when
\* the other server listens; the connection then waits in its backlog and
\* the worker enters __synchroniseLinker. When it fails inSync is read again.
WorkerConnect(s) ==
    /\ gpos[s]["W"] = "connect"
    /\ IF srun[peerOf(s)]
       THEN /\ gconn[s].st \in {"none", "over"}
            /\ gconn' = [gconn EXCEPT ![s] =
                            [NoGconn EXCEPT !.st = "backlog", !.alive["i"] = TRUE]]
            /\ gpos' = [gpos EXCEPT ![s]["W"] = "enter"]
            /\ UNCHANGED inSync
       ELSE /\ inSync' = [inSync EXCEPT ![s] = connected_servers[s]]
            /\ gpos' = [gpos EXCEPT ![s]["W"] =
                           IF connected_servers[s] THEN "check" ELSE "connect"]
            /\ UNCHANGED gconn
    /\ UNCHANGED <<srun, connected_servers>>
    /\ UNCHANGED notDisc

\* __acceptSyncConnection: accept() returns a connection of the backlog and
\* a thread is started on __synchroniseLinker
SyncAccept(s) ==
    /\ srun[s]
    /\ gconn[peerOf(s)].st = "backlog"
    /\ gpos[s]["H"] = "none"
    /\ gconn' = [gconn EXCEPT ![peerOf(s)].st = "accepted",
                              ![peerOf(s)].alive["a"] = TRUE]
    /\ gpos' = [gpos EXCEPT ![s]["H"] = "enter"]
    /\ UNCHANGED <<srun, connected_servers, inSync>>
    /\ UNCHANGED notDisc

\* a gossip routine that leaves the list alone when its connection is a
\* second one for the address
leaveKeepsAddress(pos, listed) == IF pos = "duplicate" THEN listed ELSE FALSE

\* __synchroniseLinker, lines 224-227: the address is removed if present
leave(pos, listed) == FALSE

\* __synchroniseLinker, lines 203-208: under the lock, the address is added
\* to __connected_servers, or the connection is closed when it is there
SyncEnter(s, r) ==
    LET d == connOf(s, r)
        e == endOf(r)
    IN
    /\ gpos[s][r] = "enter"
    /\ IF ~connected_servers[s]
       THEN /\ connected_servers' = [connected_servers EXCEPT ![s] = TRUE]
            /\ gpos' = [gpos EXCEPT ![s][r] = "send"]
            /\ UNCHANGED gconn
       ELSE /\ gconn' = [gconn EXCEPT ![d].alive[e] = FALSE, ![d].closed[e] = TRUE]
            /\ gpos' = [gpos EXCEPT ![s][r] = "duplicate"]
            /\ UNCHANGED connected_servers
    /\ UNCHANGED <<srun, inSync>>
    /\ UNCHANGED notDisc

\* __synchroniseLinker, line 213: connection.send(toJSON()); it raises when
\* the other end has closed, and the except clause closes the connection
SyncSend(s, r) ==
    LET d == connOf(s, r)
        e == endOf(r)
    IN
    /\ gpos[s][r] = "send"
    /\ srun[s]
    /\ IF gconn[d].closed[otherEnd(e)]
       THEN /\ gconn' = [gconn EXCEPT ![d].alive[e] = FALSE, ![d].closed[e] = TRUE]
            /\ gpos' = [gpos EXCEPT ![s][r] = "exit"]
       ELSE /\ gconn' = [gconn EXCEPT ![d].unread[e] = @ + 1]
            /\ gpos' = [gpos EXCEPT ![s][r] = "recv"]
    /\ UNCHANGED <<srun, connected_servers, inSync>>
    /\ UNCHANGED notDisc

\* __synchroniseLinker, lines 214-216: recv() returns the linker of the
\* other server and it is merged; recv() raises when the other end has
\* closed, and the except clause closes the connection
SyncRecv(s, r) ==
    LET d == connOf(s, r)
        e == endOf(r)
    IN
    /\ gpos[s][r] = "recv"
    /\ srun[s]
    /\ IF gconn[d].unread[otherEnd(e)] > 0
       THEN /\ gconn' = [gconn EXCEPT ![d].unread[otherEnd(e)] = @ - 1,
                                      ![d].merged = @ \cup {e}]
            /\ gpos' = [gpos EXCEPT ![s][r] = "send"]
       ELSE /\ gconn[d].closed[otherEnd(e)]
            /\ gconn' = [gconn EXCEPT ![d].alive[e] = FALSE, ![d].closed[e] = TRUE]
            /\ gpos' = [gpos EXCEPT ![s][r] = "exit"]
    /\ UNCHANGED <<srun, connected_servers, inSync>>
    /\ UNCHANGED notDisc

\* __synchroniseLinker, lines 210 and 223-227: the connection is not alive,
\* the loop is over, the address is removed and the routine returns: the
\* worker goes back to the top of its loop, the accepted thread ends
SyncLeave(s, r) ==
    LET d == connOf(s, r) IN
    /\ gpos[s][r] \in {"exit", "duplicate"}
    /\ connected_servers' = [connected_servers EXCEPT ![s] = leave(gpos[s][r], @)]
    /\ gpos' = [gpos EXCEPT ![s][r] = IF r = "W" THEN "check" ELSE "none"]
    /\ gconn' = [gconn EXCEPT ![d].st =
                    IF gconn[d].closed["i"] /\ gconn[d].closed["a"] THEN "over" ELSE @]
    /\ UNCHANGED <<srun, inSync>>
    /\ UNCHANGED notDisc

SyncThread(s, r) ==
    \/ r = "W" /\ WorkerCheck(s)
    \/ r = "W" /\ WorkerConnect(s)
    \/ r = "H" /\ SyncAccept(s)
    \/ SyncEnter(s, r)
    \/ SyncSend(s, r)
    \/ SyncRecv(s, r)
    \/ SyncLeave(s, r)

DiscNext ==
    \/ \E s \in Servers : DiscStart(s)
    \/ \E s \in Servers, r \in Roles : SyncThread(s, r)

(***************************************************************************)
(* SynchronisationClient shared by threads: getAddresses calls of several  *)
(* threads on one connected client (debug off), the server answering the   *)
(* get orders in the order it reads them                                   *)
(***************************************************************************)
Callers == {"k1", "k2"}

\* the linker of the server while the threads call: one address per tag
OrderLinker == [a \in Address |-> IF a[2] = 1 THEN "t1" ELSE "t2"]

NoData == <<>>
NoResult == [value |-> NoTag, addresses |-> {}]

OrderInit ==
    /\ data_lock = "free"
    /\ opc = [t \in Callers |-> "idle"]
    /\ ovalue = [t \in Callers |-> NoTag]
    /\ owire = <<>>
    /\ oreply = <<>>
    /\ odata = [t \in Callers |-> NoData]
    /\ oresult = [t \in Callers |-> NoResult]
    /\ ocalls = 0

\* getAddresses(value), lines 96-98: order.get(value); sendOrder(order, True)
GetAddressesCall(t, value) ==
    /\ opc[t] = "idle"
    /\ ocalls < MaxOrderCalls
    /\ ocalls' = ocalls + 1
    /\ opc' = [opc EXCEPT ![t] = "send"]
    /\ ovalue' = [ovalue EXCEPT ![t] = value]
    /\ oresult' = [oresult EXCEPT ![t] = NoResult]
    /\ UNCHANGED <<data_lock, owire, oreply, odata>>
    /\ UNCHANGED notOrder

\* sendOrder, lines 123-133: acquire, send the order, release
OrderSend(t) ==
    /\ opc[t] = "send"
    /\ data_lock = "free"
    /\ owire' = Append(owire, ovalue[t])
    /\ opc' = [opc EXCEPT ![t] = "connected"]
    /\ UNCHANGED <<data_lock, ovalue, oreply, odata, oresult, ocalls>>
    /\ UNCHANGED notOrder

\* sendOrder, line 135: `retrieve and self.connected`; the property takes
\* and releases the lock (lines 22-24)
OrderConnected(t) ==
    /\ opc[t] = "connected"
    /\ data_lock = "free"
    /\ opc' = [opc EXCEPT ![t] = "acquire"]
    /\ UNCHANGED <<data_lock, ovalue, owire, oreply, odata, oresult, ocalls>>
    /\ UNCHANGED notOrder

\* sendOrder, line 138: the lock is taken again for the read
OrderAcquire(t) ==
    /\ opc[t] = "acquire"
    /\ data_lock = "free"
    /\ data_lock' = t
    /\ opc' = [opc EXCEPT ![t] = "recv"]
    /\ UNCHANGED <<ovalue, owire, oreply, odata, oresult, ocalls>>
    /\ UNCHANGED notOrder

\* sendOrder, lines 140-150: recv() returns the next reply on the
\* connection; release; json.loads(data)
OrderRecv(t) ==
    /\ opc[t] = "recv"
    /\ oreply # <<>>
    /\ odata' = [odata EXCEPT ![t] = Head(oreply)]
    /\ oreply' = Tail(oreply)
    /\ data_lock' = "free"
    /\ opc' = [opc EXCEPT ![t] = "return"]
    /\ UNCHANGED <<ovalue, owire, oresult, ocalls>>
    /\ UNCHANGED notOrder

\* getAddresses, lines 99-102: data[value] if value in data else []
addressesOf(data, value) == IF value \in DOMAIN data THEN data[value] ELSE {}

GetAddressesReturn(t) ==
    /\ opc[t] = "return"
    /\ oresult' = [oresult EXCEPT ![t] =
                      [value |-> ovalue[t],
                       addresses |-> addressesOf(odata[t], ovalue[t])]]
    /\ opc' = [opc EXCEPT ![t] = "idle"]
    /\ odata' = [odata EXCEPT ![t] = NoData]
    /\ UNCHANGED <<data_lock, ovalue, owire, oreply, ocalls>>
    /\ UNCHANGED notOrder

\* SynchronisationServer.__modifyLinker, lines 250 and 275-277: the thread
\* of the data connection reads a get order and sends getValues([value])
OrderServe ==
    /\ owire # <<>>
    /\ oreply' = Append(oreply, getValues(OrderLinker, {Head(owire)}))
    /\ owire' = Tail(owire)
    /\ UNCHANGED <<data_lock, opc, ovalue, odata, oresult, ocalls>>
    /\ UNCHANGED notOrder

Caller(t) ==
    \/ \E value \in Tags : GetAddressesCall(t, value)
    \/ OrderSend(t)
    \/ OrderConnected(t)
    \/ OrderAcquire(t)
    \/ OrderRecv(t)
    \/ GetAddressesReturn(t)

OrderNext ==
    \/ \E t \in Callers : Caller(t)
    \/ OrderServe

(***************************************************************************)
(* Mesh radio: on(), off() and the threads they start and stop (timeout    *)
(* None, debug off; the synchronisation server is reachable)               *)
(***************************************************************************)
Sessions == 1..MaxSessions

WorkInit ==
    /\ won = FALSE
    /\ wsession = 0
    /\ wserver = [s \in Sessions |-> "none"]
    /\ wclient = FALSE
    /\ acceptpc = [s \in Sessions |-> "none"]
    /\ acceptOn = [s \in Sessions |-> 0]
    /\ syncpc = [s \in Sessions |-> "none"]
    /\ readpc = [s \in Sessions |-> "none"]
    /\ ralive = [s \in Sessions |-> FALSE]
    /\ rin = [s \in Sessions |-> FALSE]
    /\ woff = [s \in Sessions |-> FALSE]

\* Radio.on: __on = True, a new ConnectionServer in __receive_server,
\* connect and linkPort, then the two threads
WorkOn ==
    LET s == wsession + 1 IN
    /\ ~won
    /\ wsession < MaxSessions
    /\ won' = TRUE
    /\ wsession' = s
    /\ wserver' = [wserver EXCEPT ![s] = "listening"]
    /\ wclient' = TRUE
    /\ syncpc' = [syncpc EXCEPT ![s] = "while"]
    /\ acceptpc' = [acceptpc EXCEPT ![s] = "while"]
    /\ UNCHANGED <<acceptOn, readpc, ralive, rin, woff>>
    /\ UNCHANGED notWork

\* Radio.off: unlinkPort, disconnect, __on = False, __receive_server.close()
WorkOff ==
    /\ won
    /\ won' = FALSE
    /\ wclient' = FALSE
    /\ wserver' = [wserver EXCEPT ![wsession] = "closed"]
    /\ woff' = [woff EXCEPT ![wsession] = TRUE]
    /\ UNCHANGED <<wsession, acceptpc, acceptOn, syncpc, readpc, ralive, rin>>
    /\ UNCHANGED notWork

\* __acceptClientConnection, lines 329 and 333: `while self.__on`, then
\* accept() on the server that self.__receive_server names at that moment
AcceptWhile(s) ==
    /\ acceptpc[s] = "while"
    /\ acceptpc' = [acceptpc EXCEPT ![s] = IF won THEN "accept" ELSE "ended"]
    /\ acceptOn' = [acceptOn EXCEPT ![s] = IF won THEN wsession ELSE @]
    /\ UNCHANGED <<won, wsession, wserver, wclient, syncpc, readpc, ralive, rin, woff>>
    /\ UNCHANGED notWork

\* __acceptClientConnection, lines 333-334: accept() returns the connection
\* of another radio and a __receiveData thread is started for it
AcceptReturn(s) ==
    /\ acceptpc[s] = "accept"
    /\ wserver[acceptOn[s]] = "listening"
    /\ readpc[s] = "none"
    /\ readpc' = [readpc EXCEPT ![s] = "while"]
    /\ ralive' = [ralive EXCEPT ![s] = TRUE]
    /\ acceptpc' = [acceptpc EXCEPT ![s] = "while"]
    /\ UNCHANGED <<won, wsession, wserver, wclient, acceptOn, syncpc, rin, woff>>
    /\ UNCHANGED notWork

\* __acceptClientConnection, lines 335-337: accept() raises on the closed
\* server; the exception is dropped and the loop goes on
AcceptRaise(s) ==
    /\ acceptpc[s] = "accept"
    /\ wserver[acceptOn[s]] = "closed"
    /\ acceptpc' = [acceptpc EXCEPT ![s] = "while"]
    /\ UNCHANGED <<won, wsession, wserver, wclient, acceptOn, syncpc, readpc,
                   ralive, rin, woff>>
    /\ UNCHANGED notWork

\* __synchroniseAddresses, lines 388-398: `while self.__on`; connect when
\* the client is not connected
SyncWhile(s) ==
    /\ syncpc[s] = "while"
    /\ syncpc' = [syncpc EXCEPT ![s] = IF won THEN "inner" ELSE "ended"]
    /\ wclient' = (wclient \/ won)
    /\ UNCHANGED <<won, wsession, wserver, acceptpc, acceptOn, readpc, ralive,
                   rin, woff>>
    /\ UNCHANGED notWork

\* __synchroniseAddresses, lines 400-426: `while connected`; a refresh round
\* when the radio is on, disconnect() when it is off
SyncInner(s) ==
    /\ syncpc[s] = "inner"
    /\ syncpc' = [syncpc EXCEPT ![s] = IF wclient THEN "inner" ELSE "while"]
    /\ wclient' = (wclient /\ won)
    /\ UNCHANGED <<won, wsession, wserver, acceptpc, acceptOn, readpc, ralive,
                   rin, woff>>
    /\ UNCHANGED notWork

\* __receiveData, lines 352-353 and 365-366: `while connection.alive`; the
\* connection is closed when the radio is off
ReadWhile(s) ==
    /\ readpc[s] = "while"
    /\ readpc' = [readpc EXCEPT ![s] =
                     IF ~ralive[s] THEN "ended" ELSE IF won THEN "recv" ELSE "while"]
    /\ ralive' = [ralive EXCEPT ![s] = @ /\ won]
    /\ UNCHANGED <<won, wsession, wserver, wclient, acceptpc, acceptOn, syncpc,
                   rin, woff>>
    /\ UNCHANGED notWork

\* __receiveData, lines 355-361: recv() returns a message of the other radio
ReadRecv(s) ==
    /\ readpc[s] = "recv"
    /\ rin[s]
    /\ rin' = [rin EXCEPT ![s] = FALSE]
    /\ readpc' = [readpc EXCEPT ![s] = "while"]
    /\ UNCHANGED <<won, wsession, wserver, wclient, acceptpc, acceptOn, syncpc,
                   ralive, woff>>
    /\ UNCHANGED notWork

\* the other radio writes a message on the connection
ReadInput(s) ==
    /\ ralive[s]
    /\ ~rin[s]
    /\ rin' = [rin EXCEPT ![s] = TRUE]
    /\ UNCHANGED <<won, wsession, wserver, wclient, acceptpc, acceptOn, syncpc,
                   readpc, ralive, woff>>
    /\ UNCHANGED notWork

\* the steps the threads of a session take by themselves
WorkThread(s) ==
    \/ AcceptWhile(s)
    \/ AcceptRaise(s)
    \/ SyncWhile(s)
    \/ SyncInner(s)
    \/ ReadWhile(s)
    \/ ReadRecv(s)

WorkNext ==
    \/ WorkOn
    \/ WorkOff
    \/ \E s \in Sessions : WorkThread(s)
    \/ \E s \in Sessions : AcceptReturn(s)
    \/ \E s \in Sessions : ReadInput(s)

(***************************************************************************)
(* Mesh radio: the announcements of its tag to a reachable synchronisation *)
(* server, over the data connections its SynchronisationClient makes       *)
(***************************************************************************)
AnnConns == 1..MaxConnects

AnnInit ==
    /\ aon = FALSE
    /\ atag = tagOf(7, 0)
    /\ aconn = 0
    /\ anext = 0
    /\ aup = [c \in AnnConns |-> FALSE]
    /\ awire = [c \in AnnConns |-> <<>>]
    /\ alink = [c \in AnnConns |-> FALSE]
    /\ aended = [c \in AnnConns |-> FALSE]
    /\ areg = Unlinked
    /\ alock = FALSE
    /\ aowner = 0

\* SynchronisationClient.sendOrder(order) without retrieve, lines 123-133:
\* the connection after the call and whether the order was written; no
\* connection, or a send that raises on a broken stream, leaves None
annSend(conn, up) ==
    IF conn = 0 THEN [conn |-> 0, wrote |-> FALSE]
    ELSE IF up[conn] THEN [conn |-> conn, wrote |-> TRUE]
    ELSE [conn |-> 0, wrote |-> FALSE]

\* Radio.on: __on = True, connect(data_address), linkPort(tag, port)
AnnOn ==
    LET c == anext + 1 IN
    /\ ~aon
    /\ anext < MaxConnects
    /\ aon' = TRUE
    /\ anext' = c
    /\ aconn' = c
    /\ aup' = [aup EXCEPT ![c] = TRUE]
    /\ awire' = [awire EXCEPT ![c] = <<[kind |-> "link", tag |-> atag]>>]
    /\ UNCHANGED <<atag, alink, aended, areg, alock, aowner>>
    /\ UNCHANGED notAnn

\* Radio.off: unlinkPort(port), disconnect(), __on = False
AnnOff ==
    LET w == annSend(aconn, aup) IN
    /\ aon
    /\ aconn # 0 => Len(awire[aconn]) < MaxUnread
    /\ aon' = FALSE
    /\ aconn' = 0
    /\ awire' = IF w.wrote THEN [awire EXCEPT ![aconn] = Append(@, [kind |-> "unlink", tag |-> Unlinked])]
                ELSE awire
    /\ aup' = IF w.conn # 0 THEN [aup EXCEPT ![w.conn] = FALSE] ELSE aup
    /\ UNCHANGED <<atag, anext, alink, aended, areg, alock, aowner>>
    /\ UNCHANGED notAnn

\* Radio.config(channel=ch), lines 212-216: the new tag, and when the radio
\* is on unlinkPort(port) then linkPort(tag, port)
AnnConfig(ch) ==
    LET w1 == annSend(aconn, aup)
        w2 == annSend(w1.conn, aup)
        new == tagOf(ch, 0)
    IN
    /\ (aon /\ aconn # 0) => Len(awire[aconn]) + 2 <= MaxUnread
    /\ atag' = new
    /\ IF aon
       THEN /\ aconn' = w2.conn
            /\ awire' = IF w2.wrote
                        THEN [awire EXCEPT ![aconn] =
                                 @ \o <<[kind |-> "unlink", tag |-> Unlinked],
                                        [kind |-> "link", tag |-> new]>>]
                        ELSE awire
       ELSE UNCHANGED <<aconn, awire>>
    /\ UNCHANGED <<aon, anext, aup, alink, aended, areg, alock, aowner>>
    /\ UNCHANGED notAnn

\* the stream of the client's data connection breaks
AnnBreak ==
    /\ aconn # 0
    /\ aup[aconn]
    /\ anext < MaxConnects
    /\ aup' = [aup EXCEPT ![aconn] = FALSE]
    /\ UNCHANGED <<aon, atag, aconn, anext, awire, alink, aended, areg, alock, aowner>>
    /\ UNCHANGED notAnn

\* __synchroniseAddresses, lines 388-409: while the radio is on, connect
\* when the client is not connected, else getAddresses(tag), which drops
\* the connection when its send fails
AnnSynchronise ==
    /\ aon
    /\ IF aconn = 0
       THEN /\ anext < MaxConnects
            /\ anext' = anext + 1
            /\ aconn' = anext + 1
            /\ aup' = [aup EXCEPT ![anext + 1] = TRUE]
       ELSE /\ aconn' = annSend(aconn, aup).conn
            /\ UNCHANGED <<anext, aup>>
    /\ UNCHANGED <<aon, atag, awire, alink, aended, areg, alock, aowner>>
    /\ UNCHANGED notAnn

\* AddressesLinker.unlinkAddress on the radio's address, lines 77-79: pop
\* raises KeyError when the address is not linked, the lock still held
annUnlinkAddress(reg) ==
    IF reg # Unlinked THEN [reg |-> Unlinked, lock |-> FALSE, raised |-> FALSE]
    ELSE [reg |-> reg, lock |-> TRUE, raised |-> TRUE]

\* SynchronisationServer.__modifyLinker, lines 258-280: the thread of a
\* data connection executes the next link or unlink order; an exception of
\* the linker ends the execution of the order (line 278). A call on the
\* linker waits while its lock is held.
AnnServe(c) ==
    LET o == Head(awire[c])
        u == annUnlinkAddress(areg)
    IN
    /\ ~aended[c]
    /\ awire[c] # <<>>
    /\ (o.kind = "link" \/ alink[c]) => ~alock
    /\ awire' = [awire EXCEPT ![c] = Tail(@)]
    /\ IF o.kind = "link"
       THEN IF alink[c] /\ u.raised
            THEN /\ alock' = TRUE
                 /\ UNCHANGED <<areg, alink, aowner>>
            ELSE /\ areg' = o.tag
                 /\ aowner' = c
                 /\ alink' = [alink EXCEPT ![c] = TRUE]
                 /\ UNCHANGED alock
       ELSE IF alink[c]
            THEN /\ areg' = u.reg
                 /\ alock' = u.lock
                 /\ alink' = [alink EXCEPT ![c] = u.raised]
                 /\ aowner' = IF u.raised THEN aowner ELSE 0
            ELSE UNCHANGED <<areg, alock, alink, aowner>>
    /\ UNCHANGED <<aon, atag, aconn, anext, aup, aended>>
    /\ UNCHANGED notAnn

\* __modifyLinker, lines 249-256: recv() raises on the lost connection; the
\* link of the connection is unlinked and the thread ends
AnnServeLost(c) ==
    LET u == annUnlinkAddress(areg) IN
    /\ c <= anext
    /\ ~aended[c]
    /\ awire[c] = <<>>
    /\ ~aup[c]
    /\ alink[c] => ~alock
    /\ areg' = IF alink[c] THEN u.reg ELSE areg
    /\ alock' = IF alink[c] THEN u.lock ELSE alock
    /\ aowner' = IF alink[c] /\ ~u.raised THEN 0 ELSE aowner
    /\ aended' = [aended EXCEPT ![c] = TRUE]
    /\ UNCHANGED <<aon, atag, aconn, anext, aup, awire, alink>>
    /\ UNCHANGED notAnn

AnnServer(c) ==
    \/ AnnServe(c)
    \/ AnnServeLost(c)

AnnNext ==
    \/ AnnOn
    \/ AnnOff
    \/ \E ch \in MeshChannels : AnnConfig(ch)
    \/ AnnBreak
    \/ AnnSynchronise
    \/ \E c \in AnnConns : AnnServer(c)

(***************************************************************************)
(* Mesh radio: config(length=..., queue=...), and what send_bytes and the  *)
(* mailbox do with the two settings (the radio is on)                      *)
(***************************************************************************)
\* a keyword argument is <<>> when omitted and <<v>> when given
KwLengths == {<<>>, <<0>>, <<1>>, <<40>>}
KwQueues == {<<>>, <<0>>, <<1>>, <<4>>}
KwMessageLengths == {1, 2, 33, 41}
NoKwret == [len |-> 0, outcome |-> "none"]

\* Radio(...): the attributes, then config() with no argument
KwInit ==
    /\ attr_length = <<>>
    /\ priv_length = MeshLength
    /\ attr_queue_size = <<>>
    /\ priv_queue_size = MeshQueueSize
    /\ data_queue = [maxsize |-> MeshQueueSize, n |-> 0]
    /\ kwcall = [length |-> <<>>, queue |-> <<>>]
    /\ kwret = NoKwret

\* config, lines 148-155: a given length is checked and stored in
\* self._length, an omitted one stores 32 in self.__length
kwLengthRaises(length) == length # <<>> /\ (length[1] < 1 \/ 251 < length[1])
\* config, lines 157-164: the same for queue and 3
kwQueueRaises(queue) == queue # <<>> /\ queue[1] < 1

\* Radio.config(length=..., queue=...): the two settings, and at lines
\* 209-211 a new Queue(self.__queue_size); a ValueError ends the call where
\* it is raised
KwConfig(length, queue) ==
    /\ attr_length' = IF length # <<>> /\ ~kwLengthRaises(length) THEN length ELSE attr_length
    /\ priv_length' = IF length = <<>> THEN MeshLength ELSE priv_length
    /\ IF kwLengthRaises(length)
       THEN UNCHANGED <<attr_queue_size, priv_queue_size, data_queue, kwcall>>
       ELSE /\ attr_queue_size' = IF queue # <<>> /\ ~kwQueueRaises(queue) THEN queue
                                  ELSE attr_queue_size
            /\ priv_queue_size' = IF queue = <<>> THEN MeshQueueSize ELSE priv_queue_size
            /\ IF kwQueueRaises(queue)
               THEN UNCHANGED <<data_queue, kwcall>>
               ELSE /\ data_queue' = [maxsize |-> priv_queue_size', n |-> 0]
                    /\ kwcall' = [length |-> length, queue |-> queue]
    /\ kwret' = NoKwret
    /\ UNCHANGED notKw

\* send_bytes, lines 239-240: ValueError when len(message) > self.__length
KwSendBytes(len) ==
    /\ kwret' = [len |-> len,
                 outcome |-> IF len > priv_length THEN "ValueError" ELSE "sent"]
    /\ UNCHANGED <<attr_length, priv_length, attr_queue_size, priv_queue_size,
                   data_queue, kwcall>>
    /\ UNCHANGED notKw

\* __receiveData, lines 358-361: a received message is put in the mailbox
\* unless the mailbox is full
KwReceiveData ==
    /\ data_queue.n < data_queue.maxsize
    /\ data_queue' = [data_queue EXCEPT !.n = @ + 1]
    /\ UNCHANGED <<attr_length, priv_length, attr_queue_size, priv_queue_size,
                   kwcall, kwret>>
    /\ UNCHANGED notKw

\* receive_bytes, lines 280-285: the oldest message leaves the mailbox
KwReceiveBytes ==
    /\ data_queue.n > 0
    /\ data_queue' = [data_queue EXCEPT !.n = @ - 1]
    /\ UNCHANGED <<attr_length, priv_length, attr_queue_size, priv_queue_size,
                   kwcall, kwret>>
    /\ UNCHANGED notKw

KwNext ==
    \/ \E length \in KwLengths, queue \in KwQueues : KwConfig(length, queue)
    \/ \E len \in KwMessageLengths : KwSendBytes(len)
    \/ KwReceiveData
    \/ KwReceiveBytes

(***************************************************************************)
(* Broker-topology radio: on(), off() and the listen thread of each on()   *)
(***************************************************************************)
SessInit ==
    /\ bpeer = 0
    /\ bsessions = 0
    /\ bsocket = [s \in Sessions |-> "none"]
    /\ blisten = [s \in Sessions |-> "none"]
    /\ bis_listening = [s \in Sessions |-> FALSE]
    /\ bframe = [s \in Sessions |-> FALSE]

\* Radio.on, lines 61-92: nothing when a peer is set; else connect, the
\* listener, and the thread that will run listen(peer)
SessOn ==
    LET s == bsessions + 1 IN
    /\ bpeer = 0
    /\ bsessions < MaxSessions
    /\ bsessions' = s
    /\ bpeer' = s
    /\ bsocket' = [bsocket EXCEPT ![s] = "open"]
    /\ blisten' = [blisten EXCEPT ![s] = "start"]
    /\ UNCHANGED <<bis_listening, bframe>>
    /\ UNCHANGED notSess

\* Radio.off, lines 96-101: stop and close the peer that self.__peer names
\* and set it to None
off(peer, socket, listening) ==
    IF peer = 0 THEN [peer |-> 0, socket |-> socket, listening |-> listening]
    ELSE [peer |-> 0,
          socket |-> [socket EXCEPT ![peer] = IF @ = "open" THEN "closed" ELSE @],
          listening |-> [listening EXCEPT ![peer] = FALSE]]

\* the user calls off()
SessOff ==
    LET o == off(bpeer, bsocket, bis_listening) IN
    /\ bpeer # 0
    /\ bpeer' = o.peer
    /\ bsocket' = o.socket
    /\ bis_listening' = o.listening
    /\ UNCHANGED <<bsessions, blisten, bframe>>
    /\ UNCHANGED notSess

\* the connection of a peer to the broker fails
SessFail(s) ==
    /\ bsocket[s] = "open"
    /\ bsocket' = [bsocket EXCEPT ![s] = "failed"]
    /\ UNCHANGED <<bpeer, bsessions, blisten, bis_listening, bframe>>
    /\ UNCHANGED notSess

\* the broker sends a command to a peer
SessFrame(s) ==
    /\ bsocket[s] = "open"
    /\ ~bframe[s]
    /\ bframe' = [bframe EXCEPT ![s] = TRUE]
    /\ UNCHANGED <<bpeer, bsessions, bsocket, blisten, bis_listening>>
    /\ UNCHANGED notSess

\* MicrobitWebsocketPeer.listen, lines 355-357: the thread enters listen()
SessListen(s) ==
    /\ blisten[s] = "start"
    /\ bis_listening' = [bis_listening EXCEPT ![s] = TRUE]
    /\ blisten' = [blisten EXCEPT ![s] = "recv"]
    /\ UNCHANGED <<bpeer, bsessions, bsocket, bframe>>
    /\ UNCHANGED notSess

\* MicrobitWebsocketPeer.listen, lines 357-375: recv() returns a command,
\* the listeners are called, and the loop ends when stop() was called
SessRecv(s) ==
    /\ blisten[s] = "recv"
    /\ bframe[s]
    /\ bframe' = [bframe EXCEPT ![s] = FALSE]
    /\ blisten' = [blisten EXCEPT ![s] = IF bis_listening[s] THEN "recv" ELSE "ended"]
    /\ UNCHANGED <<bpeer, bsessions, bsocket, bis_listening>>
    /\ UNCHANGED notSess

\* MicrobitWebsocketPeer.listen, lines 359-364: recv() raises
\* ConnectionClosedOK after a completed closing handshake: stop, break; the
\* thread's listen() returns
SessClosedOK(s) ==
    /\ blisten[s] = "recv"
    /\ ~bframe[s]
    /\ bsocket[s] = "closed"
    /\ blisten' = [blisten EXCEPT ![s] = "ended"]
    /\ bis_listening' = [bis_listening EXCEPT ![s] = FALSE]
    /\ UNCHANGED <<bpeer, bsessions, bsocket, bframe>>
    /\ UNCHANGED notSess

\* MicrobitWebsocketPeer.listen, lines 359-361: recv() raises
\* ConnectionClosedError (the connection failed, or it was closed and the
\* broker's close frame did not arrive): CommunicationClosedError
SessClosedError(s) ==
    /\ blisten[s] = "recv"
    /\ ~bframe[s]
    /\ bsocket[s] \in {"closed", "failed"}
    /\ blisten' = [blisten EXCEPT ![s] = "except"]
    /\ UNCHANGED <<bpeer, bsessions, bsocket, bis_listening, bframe>>
    /\ UNCHANGED notSess

\* Radio.on, lines 89-90: the thread catches CommunicationClosedError and
\* calls self.off()
SessExceptOff(s) ==
    LET o == off(bpeer, bsocket, bis_listening) IN
    /\ blisten[s] = "except"
    /\ bpeer' = o.peer
    /\ bsocket' = o.socket
    /\ bis_listening' = o.listening
    /\ blisten' = [blisten EXCEPT ![s] = "ended"]
    /\ UNCHANGED <<bsessions, bframe>>
    /\ UNCHANGED notSess

SessNext ==
    \/ SessOn
    \/ SessOff
    \/ \E s \in Sessions : SessFail(s)
    \/ \E s \in Sessions : SessFrame(s)
    \/ \E s \in Sessions : SessListen(s)
    \/ \E s \in Sessions : SessRecv(s)
    \/ \E s \in Sessions : SessClosedOK(s)
    \/ \E s \in Sessions : SessClosedError(s)
    \/ \E s \in Sessions : SessExceptOff(s)

(***************************************************************************)
(* Import of the radio module (radio/_internal.py) by the processes of one *)
(* host: each starts its broker thread and turns its radio on              *)
(***************************************************************************)
Procs == {"p1", "p2"}

\* the module is about to be imported: server = RadioServer("localhost", 8766)
ImportInit ==
    /\ ipc = [p \in Procs |-> "spawn"]
    /\ srvpc = [p \in Procs |-> "none"]
    /\ port8766 = "free"
    /\ iconn = [p \in Procs |-> "none"]
    /\ iradios = [p \in Procs |-> {}]

\* line 16: Thread(target=start, daemon=True).start()
ImportSpawn(p) ==
    /\ ipc[p] = "spawn"
    /\ ipc' = [ipc EXCEPT ![p] = "radio"]
    /\ srvpc' = [srvpc EXCEPT ![p] = "start"]
    /\ UNCHANGED <<port8766, iconn, iradios>>
    /\ UNCHANGED notImport

\* line 18: radio = Radio("localhost", 8766)
ImportRadio(p) ==
    /\ ipc[p] = "radio"
    /\ ipc' = [ipc EXCEPT ![p] = "on"]
    /\ UNCHANGED <<srvpc, port8766, iconn, iradios>>
    /\ UNCHANGED notImport

\* line 20: radio.on() -> MicrobitWebsocketPeer.connect: the TCP connect
\* reaches a listening socket, or is refused and the exception leaves the
\* import
ImportConnect(p) ==
    /\ ipc[p] = "on"
    /\ IF port8766 = "free"
       THEN /\ ipc' = [ipc EXCEPT ![p] = "raised"]
            /\ UNCHANGED iconn
       ELSE /\ ipc' = [ipc EXCEPT ![p] = "handshake"]
            /\ iconn' = [iconn EXCEPT ![p] = "backlog"]
    /\ UNCHANGED <<srvpc, port8766, iradios>>
    /\ UNCHANGED notImport

\* radio.on() returns once the broker has answered the opening handshake
ImportOnReturn(p) ==
    /\ ipc[p] = "handshake"
    /\ iconn[p] = "peer"
    /\ ipc' = [ipc EXCEPT ![p] = "done"]
    /\ UNCHANGED <<srvpc, port8766, iconn, iradios>>
    /\ UNCHANGED notImport

\* start -> RadioServer.start -> accept_connections: create_server binds
\* the port and listens, or raises OSError when the port is in use, which
\* start() drops
BrokerStart(p) ==
    /\ srvpc[p] = "start"
    /\ IF port8766 = "free"
       THEN /\ port8766' = p
            /\ srvpc' = [srvpc EXCEPT ![p] = "listening"]
       ELSE /\ srvpc' = [srvpc EXCEPT ![p] = "failed"]
            /\ UNCHANGED port8766
    /\ UNCHANGED <<ipc, iconn, iradios>>
    /\ UNCHANGED notImport

\* RadioServer.start, lines 27-33: a connection is accepted, its handshake
\* answered and the peer added to __radios
BrokerAccept(p, q) ==
    /\ srvpc[p] = "listening"
    /\ iconn[q] = "backlog"
    /\ iconn' = [iconn EXCEPT ![q] = "peer"]
    /\ iradios' = [iradios EXCEPT ![p] = @ \cup {q}]
    /\ UNCHANGED <<ipc, srvpc, port8766>>
    /\ UNCHANGED notImport

ImportNext ==
    \/ \E p \in Procs : ImportSpawn(p)
    \/ \E p \in Procs : ImportRadio(p)
    \/ \E p \in Procs : ImportConnect(p)
    \/ \E p \in Procs : ImportOnReturn(p)
    \/ \E p \in Procs : BrokerStart(p)
    \/ \E p \in Procs, q \in Procs : BrokerAccept(p, q)

Init ==
    /\ SyncInit /\ RadioInit /\ BrokerInit /\ ThreadInit /\ ConnInit /\ MeshInit
    /\ ClientObjInit /\ ServerInit /\ PeerInit /\ BufferInit
    /\ CodecInit /\ DiscInit
    /\ OrderInit
    /\ WorkInit
    /\ AnnInit
    /\ KwInit
    /\ SessInit
    /\ ImportInit
SpecLinker == Init /\ [][LinkerNext]_vars
SpecData == Init /\ [][DataNext]_vars
SpecGossip == Init /\ [][GossipNext]_vars
SpecThreads == Init /\ [][ThreadsNext]_vars
SpecConn == Init /\ [][ConnNext]_vars
FairConn == SpecConn /\ \A e \in Ends : WF_vars(Receiver(e))
SpecMesh == Init /\ [][MeshNext]_vars
SpecClient == Init /\ [][ClientObjNext]_vars
SpecServer == Init /\ [][ServerNext]_vars
SpecPeer == Init /\ [][PeerNext]_vars
FairPeer == SpecPeer /\ WF_vars(ListenLoop)
SpecBuffer == Init /\ [][BufferNext]_vars
SpecCodec == Init /\ [][CodecNext]_vars
SpecDisc == Init /\ [][DiscNext]_vars
FairDisc == SpecDisc /\ \A s \in Servers, r \in Roles : WF_vars(SyncThread(s, r))
SpecBroker == Init /\ [][BrokerNext]_vars
SpecRadio == Init /\ [][RadioNext]_vars
SpecRadioRace == Init /\ [][RadioRaceNext]_vars
\* every worker thread of the server is scheduled again and again
FairData == SpecData /\ \A c \in Conns : WF_vars(Worker(c))
SpecImport == Init /\ [][ImportNext]_vars
SpecSess == Init /\ [][SessNext]_vars
SpecKw == Init /\ [][KwNext]_vars
SpecAnn == Init /\ [][AnnNext]_vars
\* the threads of the radio and of the server are scheduled again and again
FairAnn == SpecAnn /\ WF_vars(AnnSynchronise) /\ \A c \in AnnConns : WF_vars(AnnServer(c))
SpecWork == Init /\ [][WorkNext]_vars
\* every thread of the radio that can take a step is scheduled
FairWork == SpecWork /\ \A s \in Sessions : WF_vars(WorkThread(s))
SpecOrder == Init /\ [][OrderNext]_vars

(***************************************************************************)
(* Claims                                                                  *)
(***************************************************************************)

mailbox == radio.queue.items

\* C1: after any config(queue=q) calls that config() accepts, inbound
\* commands and receive calls, the mailbox never holds more entries than the
\* most recently configured queue value q.
C1_QueueBound ==
    Len(mailbox) <= radio.queue.maxsize

\* C2: an inbound command is in the mailbox only if its address, channel and
\* group equal the radio's current ones, also when config() ran on the user
\* thread while the listener was admitting the command (stated on the states
\* in which neither config() nor the listener is half way).
C2_MailboxMatchesConfiguration ==
    (cpc = 0 /\ lpc = "idle") =>
        \A i \in 1..Len(mailbox) :
            /\ mailbox[i].src.cfg.address = radio.address
            /\ mailbox[i].src.cfg.channel = radio.channel
            /\ mailbox[i].src.cfg.group = radio.group

\* C3: every valid command the broker received from a peer X is sent
\* exactly once to each other peer that was in the peer set when its
\* broadcast began, to no peer outside that set, and never to X; a copy goes
\* out on a peer's websocket at most once, and exactly once on one that is
\* still open.
C3_BroadcastExactlyOnce ==
    \A k \in CmdIds :
        /\ \A q \in Peers :
              /\ sendCalls[k][q] <= 1
              /\ delivered[k][q] <= sendCalls[k][q]
              /\ sendCalls[k][q] = 1 => (q \in peerSetAt[k] /\ q # sender[k])
        /\ done[k] =>
              \A q \in peerSetAt[k] \ {sender[k]} :
                  /\ sendCalls[k][q] = 1
                  /\ websocket[q] = "open" => delivered[k][q] = 1

\* three peers connected, a command of one of them broadcast to the end and
\* delivered to the two others
C3_Witness ==
    \E k \in CmdIds :
        /\ done[k]
        /\ peerSetAt[k] = Peers
        /\ \A q \in Peers \ {sender[k]} : delivered[k][q] = 1
        /\ delivered[k][sender[k]] = 0

\* C4: when a matched radio sent the string s by send(s) and this radio's
\* receive() takes that message from the mailbox, receive() returns exactly
\* s, the 3-byte prefix checked and stripped.
C4_ReceiveReturnsSentString ==
    (ret.call = "receive" /\ ~ret.none /\ ret.src.call.kind = "send") =>
        (~ret.raised /\ ret.value = ret.src.call.arg)

\* C5, as stated: every message in the mailbox is at most as long as the
\* configured length of the radio holding it (config() empties the mailbox,
\* so that length is the one it was enqueued under), whatever the sender's
\* configured length.
C5_MailboxWithinReceiverLength ==
    \A i \in 1..Len(mailbox) : Len(mailbox[i].message) <= radio.length

\* C5, amended: every message in the mailbox is at most as long as the
\* configured length of the radio that sent it, and at most MAX_LENGTH; the
\* length of the radio holding it is not checked when it is enqueued.
C5_MailboxWithinSenderLength ==
    \A i \in 1..Len(mailbox) :
        /\ Len(mailbox[i].message) <= mailbox[i].src.cfg.length
        /\ Len(mailbox[i].message) <= MAX_LENGTH

\* a mailbox holds a message longer than its radio's configured length, sent
\* by a radio configured with a greater length
C5_Witness ==
    \E i \in 1..Len(mailbox) :
        /\ Len(mailbox[i].message) > radio.length
        /\ mailbox[i].src.cfg.length > radio.length

\* C6: after one gossip round in a quiet interval (each server sent a
\* snapshot after the last order, received the other's and merged it), the
\* two linkers hold the same address-to-tag map.
C6_GossipRoundEqual ==
    (\A s \in Servers : quietRounds[s] = 1) => addresses["s1"] = addresses["s2"]

\* C7 (its safety half): an entry removed at its home server by an unlink
\* order or by the connection's teardown, with no order since, is absent
\* from the home server's linker: gossip does not bring it back.
C7_RemovedStaysAbsent ==
    \A a \in removed : addresses["s1"][a] = NoTag

\* C8: when a data connection that owns an entry is dead (closed by the
\* client or broken), eventually the entry is out of the linker and the
\* connection's worker has ended.
C8_DeadConnectionUnlinked ==
    \A c \in Conns, a \in Address :
        (stream[c] \in {"fin", "rst"} /\ inbox[c] = <<>> /\ link[c] = a
            /\ addresses[connServer(c)][a] # NoTag)
        ~> (wpc[c] \in {"done", "raised"} /\ addresses[connServer(c)][a] = NoTag)

\* C9: unlinkAddress(a) removes a's entry when there is one; when there is
\* none it returns without raising, leaves the map as it was and the lock
\* free.
C9_UnlinkSilentOnMissing ==
    lastOp.op = "unlinkAddress" =>
        /\ addresses[lastOp.target][lastOp.addr] = NoTag
        /\ ~lastOp.present =>
              /\ ~lastOp.raised
              /\ addresses[lastOp.target] = lastOp.before
              /\ ~addresses_lock[lastOp.target]

\* C10: the step in which the server executes a link(tag, port) order of a
\* connection from host h leaves (h, port) mapped to tag and owned by the
\* connection, and the entry the connection owned before, if another, gone.
OrderConsumed(c) ==
    /\ inbox[c] # <<>>
    /\ inbox'[c] = Tail(inbox[c])
    /\ stream'[c] = stream[c]

C10_LinkOrderRegisters ==
    [][\A c \in Conns :
        (OrderConsumed(c) /\ Head(inbox[c]).kind = "link") =>
            LET o == Head(inbox[c])
                new == <<connHost(c), o.port>>
            IN /\ addresses'[connServer(c)][new] = o.tag
               /\ link'[c] = new
               /\ (link[c] # None /\ link[c] # new)
                    => addresses'[connServer(c)][link[c]] = NoTag]_vars
\* C11: once the thread that calls linkAddress(a, t1) and then
\* linkAddress(a, t2) has returned from both calls, the entry for a is t2,
\* whatever another thread did to the other addresses of the linker in the
\* meantime.
C11_LastLinkWins ==
    progress = Len(T1Program) => addresses["s1"][TheAddress] = "t2"

\* both calls returned and the other thread changed the linker between them
C11_Witness ==
    /\ progress = Len(T1Program)
    /\ interleaved
    /\ addresses["s1"][OtherAddress] # NoTag

IsPrefix(r, t) == Len(r) <= Len(t) /\ SubSeq(t, 1, Len(r)) = r

\* C12: the payloads that the recv() calls of one end have returned are the
\* payloads that the send() calls of the other end wrote, one per call and
\* in the same order, however the stream delivered the bytes in chunks.
C12_FramingRoundTrip ==
    \A e \in Ends : IsPrefix(recvLog[other(e)], sentLog[e])

\* two different payloads sent by A and both returned by B's recv(), some
\* socket.recv having returned fewer bytes than asked for
C12_Witness ==
    /\ Len(recvLog["B"]) >= 2
    /\ recvLog["B"] = sentLog["A"]
    /\ recvLog["B"][1] # recvLog["B"][2]
    /\ chunked

\* C13: when the remote end is gone (closed or broken) while recv() waits
\* for the rest of a frame and no byte is left to read, recv() ends by
\* raising and the Connection is no longer alive.
C13_ShortReadRaises ==
    \A e \in Ends :
        (/\ rpc[e] \in {"header", "payload"}
         /\ ~recvComplete(rdata[e], rnum[e])
         /\ wire[other(e)] = <<>>
         /\ (broken \/ ~calive[other(e)]))
        ~> (rpc[e] = "idle" /\ ~calive[e] /\ cret.raised)

\* C14: a send() or recv() called on a Connection that is no longer alive
\* raises; it does not return normally.
C14_DeadConnectionFails ==
    (cret.call \in {"send", "recv"} /\ cret.dead) => cret.raised

\* C15: while the radio is off, send_bytes and send write no command and
\* leave the radio as it is, and receive_bytes, receive and receive_full
\* return None and leave the mailbox as it is.
C15_OffIsInert ==
    [][(~radio.peer /\ ret'.call \in {"send", "send_bytes", "receive_bytes",
                                       "receive", "receive_full"})
        => (/\ radio' = radio
            /\ ret'.none /\ ~ret'.raised
            /\ ret'.sent = <<>>)]_vars

\* the radio is off with a message left in its mailbox, and receive()
\* returned None
C15_Witness ==
    /\ ~radio.peer
    /\ mailbox # <<>>
    /\ ret.call = "receive" /\ ret.none

\* C16: while the radio is on, send_bytes(m) with m longer than the
\* configured length raises and writes no command; with m at most that long
\* it does not raise and writes exactly one command, carrying m.
C16_SendBytesLengthCheck ==
    (ret.call = "send_bytes" /\ radio.peer) =>
        IF Len(ret.value) > radio.length
        THEN ret.raised /\ ret.sent = <<>>
        ELSE ~ret.raised /\ Len(ret.sent) = 1 /\ ret.sent[1].message = ret.value

\* C17: a message that arrives while the mailbox holds `queue` entries is
\* discarded, the stored entries and their order staying as they are: a step
\* adds to the mailbox only below the configured queue value, and at the
\* end; a receive call takes the oldest entry.
C17_DropNewestFifo ==
    [][/\ Len(mailbox') > Len(mailbox) =>
              /\ Len(mailbox) < radio.queue.maxsize
              /\ mailbox' = Append(mailbox, mailbox'[Len(mailbox')])
       /\ (ret'.call \in {"receive_bytes", "receive", "receive_full"}
              /\ ~ret'.none /\ mailbox' # mailbox) =>
              /\ mailbox' = Tail(mailbox)
              /\ ret'.src = Head(mailbox).src]_vars

\* C18: when send_bytes of the mesh radio returns from its loop, it has not
\* raised, every peer whose send failed is out of the connected-peers map,
\* every other peer of the map was sent the message, each peer was tried
\* once, and the connected-peers lock is free.
C18_SendBytesSurvivesFailures ==
    [][(spc = "loop" /\ spc' = "idle") =>
          /\ scall'.done /\ ~scall'.raised
          /\ scall'.failed \cap mclients' = {}
          /\ scall'.sent = scall'.snap \ scall'.failed
          /\ \A q \in scall'.snap : scall'.count[q] = 1
          /\ ~mlock']_vars

\* a send_bytes call has returned after the send to one peer failed and the
\* send to another succeeded
C18_Witness ==
    /\ spc = "idle" /\ scall.done /\ ~mlock
    /\ scall.failed # {}
    /\ scall.sent # {}

\* C19: a message is in the mailbox of a mesh radio only if the tag of the
\* radio that sent it equalled the tag of the receiving radio when it was
\* sent.
C19_MeshTagsEqual ==
    \A q \in MeshPeers : \A i \in 1..Len(mqueue[q]) : mqueue[q][i].same

\* the ranges of the configuration: length in [1,254], queue at least 1,
\* channel in [0,83], power in [0,7], address in [0, 2^31-1], group in
\* [0,255], data_rate in {250,1000,2000}
C20_InRanges(a) ==
    /\ 1 <= a.length /\ a.length <= 254
    /\ 1 <= a.queue
    /\ 0 <= a.channel /\ a.channel <= 83
    /\ 0 <= a.power /\ a.power <= 7
    /\ 0 <= a.address /\ a.address <= 2147483647
    /\ 0 <= a.group /\ a.group <= 255
    /\ a.data_rate \in {RATE_250KBIT, RATE_1MBIT, RATE_2MBIT}

\* C20: a call of Radio.config raises exactly when one of its arguments is
\* outside the ranges of the configuration.
C20_ConfigValidatesRanges ==
    [][\A a \in ConfigCalls : Config(a) => (ret'.raised <=> ~C20_InRanges(a))]_vars

\* C21: a call on the SynchronisationClient whose write fails raises nothing
\* and leaves the client disconnected, and the call that follows a call
\* whose write failed leaves the client connected with its order read by the
\* server.
C21_WriteFailureThenReconnect ==
    /\ [][clientCalls' = clientCalls + 1 /\ clientRet'.lost =>
             ~clientRet'.raised /\ ~clientRet'.connected]_vars
    /\ [][clientCalls' = clientCalls + 1 /\ clientRet.lost =>
             /\ clientRet'.connected
             /\ served' = Append(served, CHOOSE o \in ClientOrders : o.kind = clientRet'.call)]_vars

\* C22: once ConnectionServer.close() has been called no accept() is left
\* blocked, and no close() call raises, the second one included.
C22_CloseIdempotentUnblocks ==
    /\ closeCalls > 0 => \A t \in Accepters : apc[t] # "blocked"
    /\ srvRet.call = "close" => ~srvRet.raised

\* the commands a listener is due: those of the first n valid commands
\* read while it was registered, in the order they were read
RECURSIVE due(_, _)
due(l, n) ==
    IF n = 0 THEN <<>>
    ELSE IF l \in pseen[n].registered
    THEN Append(due(l, n - 1), pseen[n].command)
    ELSE due(l, n - 1)

\* C23: every listener has been called exactly once, in the order of
\* arrival, with each valid command read while it was registered; only the
\* command being dispatched may still be missing.
C23_ListenersInReceiveOrder ==
    \A l \in Listeners :
        IF ppc = "dispatch"
        THEN plog[l] \in {due(l, Len(pseen) - 1), due(l, Len(pseen))}
        ELSE plog[l] = due(l, Len(pseen))

\* C24: the read of an invalid frame calls no listener, raises nothing and
\* leaves listen() in its loop, ready for the next frame.
C24_InvalidSkipped ==
    [][(ppc = "recv" /\ pin # <<>> /\ pin' = Tail(pin)
        /\ ~validate_json(Head(pin)).ok) =>
          /\ plog' = plog
          /\ ppc' = "recv"
          /\ is_listening' = is_listening]_vars

\* a listener was called with a command that was read after an invalid
\* frame had been skipped
C24_Witness ==
    \E l \in Listeners : \E n \in 1..Len(pseen) :
        /\ pseen[n].skipped > 0
        /\ ppc = "recv"
        /\ l \in pseen[n].registered
        /\ plog[l] # <<>>
        /\ plog[l][Len(plog[l])] = pseen[n].command

\* C25: a listen() call running when the input is closed or at its end
\* terminates.
C25_ListenTerminates ==
    (ppc \in {"recv", "dispatch"} /\ is_listening /\ pstream \in {"eof", "error"})
        ~> (ppc \in {"returned", "raised", "crashed"})

\* C26: after receive_bytes_into(buffer) with a pending message m, m is out
\* of the mailbox, the buffer has the length it had, its first
\* min(len(m), len(buffer)) bytes are the start of m and the others are as
\* before, and the result is len(m); with nothing pending the result is
\* None and the buffer is as before.
C26_ReceiveBytesInto ==
    bret.call = "receive_bytes_into" =>
        IF bret.none
        THEN rbuffer = bret.before /\ bradio.items = bret.pendingBefore
        ELSE LET k == Min(Len(bret.message), Len(bret.before)) IN
             /\ bradio.items = Tail(bret.pendingBefore)
             /\ bret.value = Len(bret.message)
             /\ Len(rbuffer) = Len(bret.before)
             /\ \A i \in 1..Len(bret.before) :
                   rbuffer[i] = IF i <= k THEN bret.message[i] ELSE bret.before[i]

\* C27: send_command produces JSON for every valid command, and decoding
\* that JSON yields a command equal to the one sent.
C27_CommandRoundTrip ==
    /\ cstage \notin {"raised", "invalid"}
    /\ cstage = "decoded" => cdecoded = ccmd

\* C28: between the end of a membership refresh of the mesh radio and its
\* next getAddresses call, every address of the connected-peers map is one
\* of the addresses of the last reply.
C28_RefreshDropsVanished ==
    mpc = "get" => mclients \subseteq maddr

\* a thread of the server is in a gossip loop it entered with the address
\* added to the list
inGossip(s) == \E r \in Roles : gpos[s][r] \in {"send", "recv", "exit"}

\* C29: the address of the other server is in the connected-servers list
\* of a server exactly while one of its threads is in a gossip loop with
\* that address; a second connection for the address does not change this.
C29_ConnectedWhileGossiping ==
    \A s \in Servers : connected_servers[s] <=> inGossip(s)

\* a connection over which both servers are in their gossip loops and both
\* have merged the linker of the other
held(d) ==
    /\ gconn[d].alive["i"] /\ gconn[d].alive["a"]
    /\ gpos[d]["W"] \in {"send", "recv"}
    /\ gpos[peerOf(d)]["H"] \in {"send", "recv"}
    /\ gconn[d].merged = {"i", "a"}

\* C30: once both servers run, from some time on they always hold a gossip
\* connection over which both linkers have been exchanged.
C30_EventuallyGossiping ==
    (\A s \in Servers : srun[s]) ~> [](\E d \in Servers : held(d))

\* C31: a getAddresses(value) call made while other threads use the same
\* client returns the addresses the server holds for that value, i.e. the
\* reply to its own get order.
C31_OwnReply ==
    \A t \in Callers :
        oresult[t] # NoResult =>
            oresult[t].addresses = getValues(OrderLinker, {oresult[t].value})[oresult[t].value]

\* C32: once a broadcast of the broker has returned in which the send to
\* a peer failed on that peer's closed connection, the peer is out of the
\* broker's peer set, and no broadcast that begins later has it as a target.
C32_FailedPeerRemoved ==
    \A k \in CmdIds, q \in Peers :
        (done[k] /\ sendCalls[k][q] = 1 /\ delivered[k][q] = 0) =>
            /\ q \notin radios
            /\ \A p \in Peers : q \notin targets[p]

\* the threads started by the on() of session s have all ended
workersEnded(s) ==
    /\ acceptpc[s] \in {"none", "ended"}
    /\ syncpc[s] \in {"none", "ended"}
    /\ readpc[s] \in {"none", "ended"}

\* C33: once off() has returned for a session of the mesh radio, every
\* thread started for that session eventually ends, with no message
\* arriving and whether or not on() is called again.
C33_WorkersEnd ==
    \A s \in Sessions : woff[s] ~> workersEnded(s)

\* C34: whenever the mesh radio is on, the linker of the reachable server
\* eventually maps the radio's address to the radio's current tag, or the
\* radio is turned off or reconfigured before; this after on(), after
\* config() and after the client's connection was lost and made again.
C34_EventuallyAnnounced ==
    \A ch \in MeshChannels :
        (aon /\ atag = tagOf(ch, 0)) ~> (~aon \/ atag # tagOf(ch, 0) \/ areg = atag)

\* C35: the sending mesh radio calls send() on a connection to another
\* radio only while its connected-peers mutex is free.
C35_NoSendUnderLock ==
    [][(\E q \in MeshPeers : scall'.count[q] > scall.count[q]) => ~mlock]_vars

\* the value a setting has after a config() call that returned: the one
\* given, or the default when it was omitted
settingOf(kw, default) == IF kw = <<>> THEN default ELSE kw[1]

\* C36: after the last config() call that returned, send_bytes accepts a
\* message exactly when its length is at most the length of that call (32
\* when omitted), and the mailbox holds at most the queue of that call (3
\* when omitted) messages.
C36_ConfigLengthQueue ==
    /\ kwret.outcome # "none" =>
          (kwret.outcome = "sent" <=> kwret.len <= settingOf(kwcall.length, MeshLength))
    /\ data_queue.n <= settingOf(kwcall.queue, MeshQueueSize)

\* C37: between the calls made on an AddressesLinker (each call has
\* returned or raised) the mutex of the linker is free, so the next call
\* can take it.
C37_LinkerMutexFree ==
    \A s \in Servers : ~addresses_lock[s]

\* the thread of data connection c takes a step
annStepOf(c) ==
    \/ awire[c] # <<>> /\ awire'[c] = Tail(awire[c])
    \/ aended'[c] # aended[c]

\* C38: the entry that the link order of one data connection placed in the
\* linker of the server is removed only by a step of the thread of that
\* connection (its unlink order, its later link order or its disconnect).
C38_RemovedByOwnerOnly ==
    [][\A c \in AnnConns :
          (aowner = c /\ areg # Unlinked /\ areg' = Unlinked) =>
              annStepOf(c)]_vars

\* C39: when the listen thread of an on() session of the broker-topology
\* radio turns the radio off, the peer it closes is the peer of its own
\* session.
C39_ListenTurnsOffOwnSession ==
    [][\A s \in Sessions :
          (blisten[s] = "except" /\ blisten'[s] = "ended" /\ bpeer # 0) =>
              bpeer = s]_vars

\* C40: at the import of the radio module the connect of radio.on() is
\* never refused, and it is made only after the broker thread of the
\* process is listening on the port or has failed to bind it.
C40_ConnectFindsBroker ==
    \A p \in Procs :
        /\ ipc[p] # "raised"
        /\ ipc[p] \in {"handshake", "done"} => srvpc[p] \in {"listening", "failed"}

====
